---- MODULE Spec2Model ----
(***************************************************************************)
(* Voice-activity segmentation and capture control of                     *)
(* freely/src-tauri/src/speaker/commands.rs.                               *)
(*                                                                         *)
(* Numbers.  f32 amplitudes are fixed-point integers with 1.0 = Unit       *)
(* (one step = 0.001); an RMS is kept in tenths of a step.  Sample         *)
(* buffers (Vec<f32>, VecDeque<f32>) are run-length encoded: a buffer is   *)
(* a sequence of runs [v |-> amplitude, n |-> count], adjacent runs        *)
(* having different amplitudes, so that a buffer of hundreds of            *)
(* thousands of samples (the 30 s safety cap at 8 kHz is 240000 samples)   *)
(* is a short value.  Every buffer operation below is the operation on     *)
(* the plain sample sequence the runs stand for.                           *)
(***************************************************************************)
EXTENDS Integers, Sequences, FiniteSets, TLC

----------------------------------------------------------------------------
(* Integer helpers *)

Abs(x) == IF x < 0 THEN -x ELSE x

Sign(x) == IF x < 0 THEN -1 ELSE IF x > 0 THEN 1 ELSE 0

Min(a, b) == IF a <= b THEN a ELSE b

Max(a, b) == IF a >= b THEN a ELSE b

\* Division rounding toward zero (an f32 product cast or truncated).
Quot(a, b) == IF a >= 0 THEN a \div b ELSE -((-a) \div b)

\* usize::saturating_sub
SatSub(a, b) == IF a >= b THEN a - b ELSE 0

RECURSIVE Gcd(_, _)
Gcd(a, b) == IF b = 0 THEN a ELSE Gcd(b, a % b)

\* Largest k in lo..hi with k * k <= x (lo * lo <= x assumed).
RECURSIVE SqrtSearch(_, _, _)
SqrtSearch(x, lo, hi) ==
    IF lo >= hi THEN lo
    ELSE LET mid == (lo + hi + 1) \div 2
         IN  IF mid * mid <= x THEN SqrtSearch(x, mid, hi)
                               ELSE SqrtSearch(x, lo, mid - 1)

\* f32::sqrt on a value below 2^30, rounded down.
ISqrt(x) == SqrtSearch(x, 0, 32767)

\* Largest k in lo..hi with k^3 * den <= num * 10^6: 100 * cbrt(num / den),
\* rounded down, for 0 <= num < den.
RECURSIVE CbrtSearch(_, _, _, _)
CbrtSearch(num, den, lo, hi) ==
    IF lo >= hi THEN lo
    ELSE LET mid == (lo + hi + 1) \div 2
         IN  IF mid * mid * mid * den <= num * 1000000
             THEN CbrtSearch(num, den, mid, hi)
             ELSE CbrtSearch(num, den, lo, mid - 1)

----------------------------------------------------------------------------
(* Program constants *)

\* 1.0f32 in amplitude steps.
Unit == 1000

\* const KNEE_RATIO: f32 = 3.0 (the knee is the cube root below).
KNEE_RATIO == 3

\* (8000..=96000).contains(&sr)
MinSampleRate == 8000

MaxSampleRate == 96000

\* let max_samples = sr as usize * 30
CapSeconds == 30

\* (sr as usize) * 15 / 100
KeepSilencePercent == 15

\* normalize_audio_level(&speech_buffer, 0.1)
TargetRms == 100

\* if current_rms < 0.001, in tenths of a step
MinRms10 == 10

\* .min(10.0)
MaxGain == 10

\* i16::MAX
I16Max == 32767

\* update_vad_config: sensitivity_rms > 1.0, max_recording_duration_secs > 3600
MaxSensitivity == 1000

MaxDurationSecs == 3600

----------------------------------------------------------------------------
(* Run-length encoded sample buffers *)

NoSamples == << >>

Run(v, n) == [v |-> v, n |-> n]

\* vec![v; n]
Fill(v, n) == IF n = 0 THEN NoSamples ELSE << Run(v, n) >>

RECURSIVE RLen(_)
RLen(b) == IF b = << >> THEN 0 ELSE Head(b).n + RLen(Tail(b))

\* push / push_back of r.n samples of amplitude r.v
RAppend(b, r) ==
    IF r.n = 0 THEN b
    ELSE IF b # << >> /\ b[Len(b)].v = r.v
         THEN [b EXCEPT ![Len(b)].n = @ + r.n]
         ELSE Append(b, r)

\* extend / extend_from_slice
RECURSIVE RCat(_, _)
RCat(a, b) == IF b = << >> THEN a ELSE RCat(RAppend(a, Head(b)), Tail(b))

\* The first k samples of b.
RECURSIVE RTake(_, _)
RTake(b, k) ==
    IF k <= 0 \/ b = << >> THEN << >>
    ELSE IF Head(b).n >= k THEN << Run(Head(b).v, k) >>
         ELSE << Head(b) >> \o RTake(Tail(b), k - Head(b).n)

\* b without its first k samples (k pop_front calls).
RECURSIVE RDrop(_, _)
RDrop(b, k) ==
    IF k <= 0 \/ b = << >> THEN b
    ELSE IF Head(b).n > k THEN << Run(Head(b).v, Head(b).n - k) >> \o Tail(b)
         ELSE RDrop(Tail(b), k - Head(b).n)

\* The sample at position i (1-based) of b.
RECURSIVE RAt(_, _)
RAt(b, i) == IF i <= Head(b).n THEN Head(b).v ELSE RAt(Tail(b), i - Head(b).n)

\* a is a prefix of b, sample by sample.
IsPrefix(a, b) == RLen(a) <= RLen(b) /\ RTake(b, RLen(a)) = a

RECURSIVE RunGcd(_)
RunGcd(b) == IF b = << >> THEN 0 ELSE Gcd(Head(b).n, RunGcd(Tail(b)))

RECURSIVE WeightedSq(_, _)
WeightedSq(b, g) ==
    IF b = << >> THEN 0
    ELSE (Head(b).n \div g) * Head(b).v * Head(b).v + WeightedSq(Tail(b), g)

\* sumsq / len: the mean of the squared samples, rounded down (b non-empty).
MeanSq(b) ==
    LET g == RunGcd(b)
    IN  WeightedSq(b, g) \div (RLen(b) \div g)

RECURSIVE PeakOf(_)
PeakOf(b) == IF b = << >> THEN 0 ELSE Max(Abs(Head(b).v), PeakOf(Tail(b)))

\* (sumsq / len).sqrt(), in tenths of a step.
Rms10(b) == ISqrt(MeanSq(b) * 100)

----------------------------------------------------------------------------
(* Signal conditioning, metrics, normalisation, encoding *)

\* A gate that also holds the samples at or above the threshold down to it.
GateAndLimit(s, threshold) ==
    IF Abs(s) < threshold
    THEN Quot(s * CbrtSearch(Abs(s), threshold, 0, 100), 100)
    ELSE Sign(s) * threshold

\* A gate that lets every sample through.
GateOpen(s, threshold) == s

\* The closure of apply_noise_gate: s * (abs / threshold).powf(1.0 / KNEE_RATIO)
\* below the threshold, s otherwise.
GateSample(s, threshold) ==
    IF Abs(s) < threshold
    THEN Quot(s * CbrtSearch(Abs(s), threshold, 0, 100), 100)
    ELSE s

RECURSIVE GateFrom(_, _, _)
GateFrom(acc, b, threshold) ==
    IF b = << >> THEN acc
    ELSE GateFrom(RAppend(acc, Run(GateSample(Head(b).v, threshold), Head(b).n)),
                  Tail(b), threshold)

apply_noise_gate(samples, threshold) == GateFrom(NoSamples, samples, threshold)

calculate_audio_metrics(chunk) == [rms10 |-> Rms10(chunk), peak |-> PeakOf(chunk)]

\* amplified = s * gain with gain = (target_rms / current_rms).min(10.0), then
\* the soft saturation sign * (1 - exp(-|amplified|)) above 1.0.
ExpNeg(a) ==
    \* Unit * exp(-a / Unit) for a > Unit, rounded down, from the values of
    \* exp(-1), exp(-2), ... and a linear step between them.
    LET E == << 367, 135, 49, 18, 6, 2, 0, 0, 0, 0, 0 >>
        k == a \div Unit
        f == a % Unit
    IN  IF k >= 10 THEN 0 ELSE E[k] - ((E[k] - E[k + 1]) * f) \div Unit

\* A gain without the limit of 10.
AmplifyUncapped(s, rms10, target) == Quot(s * target * 10, rms10)

Amplify(s, rms10, target) ==
    IF target * 10 >= MaxGain * rms10
    THEN s * MaxGain
    ELSE Quot(s * target * 10, rms10)

NormSample(s, rms10, target) ==
    LET amplified == Amplify(s, rms10, target)
    IN  IF Abs(amplified) > Unit
        THEN Sign(amplified) * (Unit - ExpNeg(Abs(amplified)))
        ELSE amplified

RECURSIVE NormFrom(_, _, _, _)
NormFrom(acc, b, rms10, target) ==
    IF b = << >> THEN acc
    ELSE NormFrom(RAppend(acc, Run(NormSample(Head(b).v, rms10, target), Head(b).n)),
                  Tail(b), rms10, target)

normalize_audio_level(samples, target_rms) ==
    IF samples = << >> THEN NoSamples
    ELSE IF Rms10(samples) < MinRms10 THEN samples
    ELSE NormFrom(NoSamples, samples, Rms10(samples), target_rms)

\* (s.clamp(-1.0, 1.0) * i16::MAX as f32) as i16
PcmSample(s) == Quot(Max(-Unit, Min(Unit, s)) * I16Max, Unit)

\* A writer that puts each sample before the ones already written.
RECURSIVE PcmBackwards(_, _)
PcmBackwards(acc, b) ==
    IF b = << >> THEN acc
    ELSE PcmBackwards(RCat(<< Run(PcmSample(Head(b).v), Head(b).n) >>, acc), Tail(b))

\* for &s in mono_f32 { writer.write_sample(sample_i16)?; }
RECURSIVE PcmFrom(_, _)
PcmFrom(acc, b) ==
    IF b = << >> THEN acc
    ELSE PcmFrom(RAppend(acc, Run(PcmSample(Head(b).v), Head(b).n)), Tail(b))

\* A range check that leaves out the two limits.
InsideRates(sr) == sr > MinSampleRate /\ sr < MaxSampleRate

\* A range check without the upper limit.
AtLeastMinRate(sr) == sr >= MinSampleRate

\* (8000..=96000).contains(&sr)
ValidSampleRate(sr) == sr >= MinSampleRate /\ sr <= MaxSampleRate

\* The header hound writes before the samples for WavSpec { channels: 1,
\* bits_per_sample: 16, sample_format: Int }: its fields in order, with their
\* sizes in bytes.
WavHeader ==
    << [f |-> "riff", bytes |-> 4], [f |-> "riff_size", bytes |-> 4],
       [f |-> "wave", bytes |-> 4], [f |-> "fmt", bytes |-> 4],
       [f |-> "fmt_size", bytes |-> 4], [f |-> "format", bytes |-> 2],
       [f |-> "channels", bytes |-> 2], [f |-> "rate", bytes |-> 4],
       [f |-> "byte_rate", bytes |-> 4], [f |-> "block_align", bytes |-> 2],
       [f |-> "bits", bytes |-> 2], [f |-> "data", bytes |-> 4],
       [f |-> "data_size", bytes |-> 4] >>

\* The bytes of the first k header fields.
RECURSIVE HeaderBytes(_)
HeaderBytes(k) == IF k = 0 THEN 0 ELSE WavHeader[k].bytes + HeaderBytes(k - 1)

\* The byte offset of header field f in the container.
OffsetOf(f) ==
    HeaderBytes((CHOOSE k \in 1..Len(WavHeader) : WavHeader[k].f = f) - 1)

\* An encoder without the test for an empty buffer.
EncodeAnyBuffer(sample_rate, mono_f32) ==
    IF ~ValidSampleRate(sample_rate) THEN [ok |-> FALSE, err |-> "Invalid sample rate"]
    ELSE [ok |-> TRUE,
          riff |-> "RIFF", wave |-> "WAVE", channels |-> 1, bits |-> 16,
          rate |-> sample_rate,
          data_size |-> 2 * RLen(mono_f32),
          pcm |-> PcmFrom(NoSamples, mono_f32)]

\* The container hound writes for {channels: 1, bits_per_sample: 16, Int}:
\* the header fields and the samples of the data chunk, in order.
samples_to_wav_b64(sample_rate, mono_f32) ==
    IF ~ValidSampleRate(sample_rate) THEN [ok |-> FALSE, err |-> "Invalid sample rate"]
    ELSE IF mono_f32 = << >> THEN [ok |-> FALSE, err |-> "Empty audio buffer"]
    ELSE [ok |-> TRUE,
          riff |-> "RIFF", wave |-> "WAVE", channels |-> 1, bits |-> 16,
          rate |-> sample_rate,
          data_size |-> 2 * RLen(mono_f32),
          pcm |-> PcmFrom(NoSamples, mono_f32)]

----------------------------------------------------------------------------
(* Configuration *)

\* impl Default for VadConfig
DefaultVadConfig ==
    [enabled |-> TRUE, hop_size |-> 1024, sensitivity_rms |-> 12,
     peak_threshold |-> 35, silence_chunks |-> 45, min_speech_chunks |-> 7,
     pre_speech_chunks |-> 12, noise_gate_threshold |-> 3,
     max_recording_duration_secs |-> 180]

\* A VAD-mode configuration with the default thresholds and the given counts.
VadCfg(hop, sil, minsp, pre) ==
    [DefaultVadConfig EXCEPT !.hop_size = hop, !.silence_chunks = sil,
                             !.min_speech_chunks = minsp, !.pre_speech_chunks = pre]

\* A continuous-mode configuration recording at most secs seconds.
ContCfg(secs) ==
    [DefaultVadConfig EXCEPT !.enabled = FALSE, !.max_recording_duration_secs = secs]

\* A validation that tests the sensitivity only.
ValidateSensitivityOnly(config) ==
    IF config.sensitivity_rms < 0 \/ config.sensitivity_rms > MaxSensitivity
    THEN "Invalid sensitivity_rms: must be 0.0-1.0"
    ELSE "Ok"

\* The validation of update_vad_config: the error it returns, or "Ok".
Validate(config) ==
    IF config.sensitivity_rms < 0 \/ config.sensitivity_rms > MaxSensitivity
    THEN "Invalid sensitivity_rms: must be 0.0-1.0"
    ELSE IF config.max_recording_duration_secs > MaxDurationSecs
    THEN "Invalid max_recording_duration_secs: must be <= 3600 (1 hour)"
    ELSE "Ok"

----------------------------------------------------------------------------
(* Notifications *)

Ev(name, src, data) == [name |-> name, src |-> src, data |-> data]

NoData == "-"

\* The notifications with the given name in a sequence of notifications.
Named(evs, name) == { i \in 1..Len(evs) : evs[i].name = name }

Count(evs, name) == Cardinality(Named(evs, name))

----------------------------------------------------------------------------
(* run_vad_capture: the locals of one task and the processing of one frame.
   A segmenter state s is a record of the locals buffer, pre_speech,
   speech_buffer, in_speech, silence_chunks, speech_chunks, together with
   out, the notifications emitted so far by the step being computed,
   classes, the is_speech verdict of every frame analysed so far, and used,
   the number of input samples that had been analysed when the last utterance
   ended. *)

VadLocals ==
    [buffer |-> NoSamples, pre_speech |-> NoSamples, speech_buffer |-> NoSamples,
     in_speech |-> FALSE, silence_chunks |-> 0, speech_chunks |-> 0,
     out |-> << >>, classes |-> << >>, used |-> 0]

IsSpeech(mono, config) ==
    LET m == calculate_audio_metrics(mono)
    IN  m.rms10 > config.sensitivity_rms * 10 \/ m.peak > config.peak_threshold

MaxUtterance(sr) == sr * CapSeconds

\* if speech_buffer.len() > max_samples
OverCap(len, sr) == len > MaxUtterance(sr)

\* An utterance that starts without the look-back audio.
Unseeded(sb, pre) == sb

\* A start that takes the look-back audio twice.
SeededTwice(sb, pre) == RCat(RCat(sb, pre), pre)

\* speech_buffer.extend(pre_speech.drain(..))
Seeded(sb, pre) == RCat(sb, pre)

\* The is_speech branch.
SpeechFrame(s, mono, config, sr, me) ==
    LET starting == ~s.in_speech
        seeded == IF starting THEN Seeded(s.speech_buffer, s.pre_speech)
                  ELSE s.speech_buffer
        chunks == (IF starting THEN 0 ELSE s.speech_chunks) + 1
        sb == RCat(seeded, mono)
        out1 == IF starting THEN Append(s.out, Ev("speech-start", me, NoData))
                ELSE s.out
        wav == samples_to_wav_b64(sr, normalize_audio_level(sb, TargetRms))
    IN  IF OverCap(RLen(sb), sr)
        THEN [s EXCEPT !.pre_speech = IF starting THEN NoSamples ELSE @,
                       !.speech_buffer = NoSamples,
                       !.in_speech = FALSE,
                       !.speech_chunks = 0,
                       !.silence_chunks = 0,
                       !.out = IF wav.ok
                               THEN Append(out1, Ev("speech-detected", me, wav))
                               ELSE out1]
        ELSE [s EXCEPT !.pre_speech = IF starting THEN NoSamples ELSE @,
                       !.speech_buffer = sb,
                       !.in_speech = TRUE,
                       !.speech_chunks = chunks,
                       !.silence_chunks = 0,
                       !.out = out1]

\* A trim that keeps none of the trailing silence.
TrimWholeRun(silence, config, sr) == silence * config.hop_size

\* A trim that reaches one frame beyond the trailing silence.
TrimIntoSpeech(silence, config, sr) == (silence + 1) * config.hop_size

\* trim_amount of the hangover branch.
TrimAmount(silence, config, sr) ==
    SatSub(silence * config.hop_size, (sr * KeepSilencePercent) \div 100)

\* if speech_buffer.len() > trim_amount { truncate(len - trim_amount) }
Trimmed(sb, trim) == IF RLen(sb) > trim THEN RTake(sb, RLen(sb) - trim) ELSE sb

\* A hangover that ends one silent frame later.
HangoverLate(silence, config) == silence > config.silence_chunks

\* A length test that asks for one speech frame more.
LongEnoughStrict(chunks, sb, config) ==
    chunks > config.min_speech_chunks /\ sb # << >>

\* A hangover that ends one silent frame early.
HangoverEarly(silence, config) == silence + 1 >= config.silence_chunks

\* A length test that accepts every utterance.
AnyLength(chunks, sb, config) == sb # << >>

\* if silence_chunks >= config.silence_chunks
HangoverDone(silence, config) == silence >= config.silence_chunks

\* if speech_chunks >= config.min_speech_chunks && !speech_buffer.is_empty()
LongEnough(chunks, sb, config) == chunks >= config.min_speech_chunks /\ sb # << >>

\* A hangover that ends the utterance without a notification.
SilenceInSpeechUnannounced(s, mono, config, sr, me) ==
    IF HangoverDone(s.silence_chunks + 1, config)
    THEN [s EXCEPT !.speech_buffer = NoSamples, !.in_speech = FALSE,
                   !.silence_chunks = 0, !.speech_chunks = 0]
    ELSE [s EXCEPT !.speech_buffer = RCat(@, mono),
                   !.silence_chunks = @ + 1]

\* The silence branch while in_speech.
SilenceInSpeech(s, mono, config, sr, me) ==
    LET silence == s.silence_chunks + 1
        sb == RCat(s.speech_buffer, mono)
        kept == Trimmed(sb, TrimAmount(silence, config, sr))
        wav == samples_to_wav_b64(sr, normalize_audio_level(kept, TargetRms))
    IN  IF HangoverDone(silence, config)
        THEN [s EXCEPT !.speech_buffer = NoSamples,
                       !.in_speech = FALSE,
                       !.silence_chunks = 0,
                       !.speech_chunks = 0,
                       !.out = IF LongEnough(s.speech_chunks, sb, config)
                               THEN IF wav.ok
                                    THEN Append(@, Ev("speech-detected", me, wav))
                                    ELSE Append(@, Ev("audio-encoding-error", me,
                                                      "Failed to encode speech"))
                               ELSE Append(@, Ev("speech-discarded", me,
                                             "Audio too short (likely background noise)"))]
        ELSE [s EXCEPT !.speech_buffer = sb, !.silence_chunks = silence]

\* A pre-speech buffer that evicts from the back.
SilenceIdleKeepOldest(s, mono, config) ==
    [s EXCEPT !.pre_speech =
        RTake(RCat(@, mono), config.pre_speech_chunks * config.hop_size)]

\* A pre-speech buffer whose capacity is one sample short of whole frames.
SilenceIdleBySample(s, mono, config) ==
    LET grown == RCat(s.pre_speech, mono)
        cap == SatSub(config.pre_speech_chunks * config.hop_size, 1)
    IN  [s EXCEPT !.pre_speech = RDrop(grown, SatSub(RLen(grown), cap))]

\* The silence branch while idle: the rolling pre-speech buffer.
SilenceIdle(s, mono, config) ==
    LET grown == RCat(s.pre_speech, mono)
        cap == config.pre_speech_chunks * config.hop_size
    IN  [s EXCEPT !.pre_speech = RDrop(grown, SatSub(RLen(grown), cap))]

\* A pass that counts the silent frames while idle as well.
VadFrameCountingIdle(s, config, sr, me) ==
    LET mono == apply_noise_gate(RTake(s.buffer, config.hop_size),
                                 config.noise_gate_threshold)
        speech == IsSpeech(mono, config)
        t == [s EXCEPT !.buffer = RDrop(@, config.hop_size),
                       !.classes = Append(@, speech)]
    IN  IF speech THEN SpeechFrame(t, mono, config, sr, me)
        ELSE IF t.in_speech THEN SilenceInSpeech(t, mono, config, sr, me)
        ELSE [SilenceIdle(t, mono, config) EXCEPT !.silence_chunks = @ + 1]

\* One pass of `while buffer.len() >= config.hop_size` (hop_size >= 1).
VadFrame(s, config, sr, me) ==
    LET mono == apply_noise_gate(RTake(s.buffer, config.hop_size),
                                 config.noise_gate_threshold)
        speech == IsSpeech(mono, config)
        t == [s EXCEPT !.buffer = RDrop(@, config.hop_size),
                       !.classes = Append(@, speech)]
        r == IF speech THEN SpeechFrame(t, mono, config, sr, me)
             ELSE IF t.in_speech THEN SilenceInSpeech(t, mono, config, sr, me)
             ELSE SilenceIdle(t, mono, config)
        ended == ~r.in_speech /\ (s.in_speech \/ speech)
    IN  [r EXCEPT !.used = IF ended THEN Len(t.classes) * config.hop_size ELSE @]

\* A drain that classifies whatever is waiting, whole frame or not.
RECURSIVE VadDrainPartial(_, _, _, _)
VadDrainPartial(s, config, sr, me) ==
    IF RLen(s.buffer) >= 1
    THEN VadDrainPartial(VadFrame(s, config, sr, me), config, sr, me)
    ELSE s

\* while buffer.len() >= config.hop_size
RECURSIVE VadDrain(_, _, _, _)
VadDrain(s, config, sr, me) ==
    IF RLen(s.buffer) >= config.hop_size
    THEN VadDrain(VadFrame(s, config, sr, me), config, sr, me)
    ELSE s

\* The body of `while let Some(sample) = stream.next().await` for r.n equal
\* samples arriving one after the other.
VadPush(s, r, config, sr, me) ==
    VadDrain([s EXCEPT !.buffer = RAppend(@, r)], config, sr, me)

----------------------------------------------------------------------------
(* Bounds of the model *)

\* Client threads issuing commands concurrently.
Clients == {1, 2}

\* Commands issued in one behaviour, over all clients.
MaxCalls == 2

\* Deliveries of the audio stream to one task in the segmenter's and the
\* continuous loop's own specifications, and under the capture controller.
MaxInputs == 6

MaxContInputs == 4

MaxCtlInputs == 1

\* Manual stop requests while one continuous capture is followed alone.
MaxStops == 1

\* Seconds of wall-clock time one continuous capture is followed for.
MaxElapsed == 2

\* The amplitudes the stream delivers: silence, a click below the noise gate,
\* a level that is speech by RMS only when it fills the frame, a level that is
\* speech by its peak.
SampleValues == {0, 2, 14, -40}

\* The amplitudes and the seconds followed under the capture controller.
CtlValues == {-40}

MaxCtlElapsed == 1

\* A large hop, 15 s at 8 kHz, for which three frames pass the 30 s cap.
BigHop == 15 * MinSampleRate

----------------------------------------------------------------------------
(* State *)

VARIABLES
    stream_task,    \* AudioState.stream_task: 0 (None) or the id of a task
    is_capturing,   \* AudioState.is_capturing
    vad_config,     \* AudioState.vad_config
    pc,             \* per client: the command it is in and its position
    loc,            \* per client: the locals of that command
    ret,            \* per client: what its last command returned
    task,           \* per task id: the spawned future and its locals
    events,         \* the notifications emitted, in order
    ncalls,         \* commands issued so far
    obs             \* observers of the history, read by the properties only

vars == << stream_task, is_capturing, vad_config, pc, loc, ret, task, events,
           ncalls, obs >>

\* Option<JoinHandle>: None, or the id of a task.
None == 0

\* Option<VadConfig>
Nothing == << >>

Some(x) == << x >>

TaskIds == 1..MaxCalls

\* A future that was never spawned.  applied and sharedThen record the
\* configuration the task last applied and the shared one at that moment;
\* announcedAt and flagFirst record what the spawning call had done before;
\* asked records a manual stop requested while the task's handle was registered;
\* prog, at and held are the lock-level view of the task (see SpecLocks).
NoTask ==
    [status |-> "unborn", mode |-> "-", pc |-> "init", cancel |-> FALSE,
     config |-> DefaultVadConfig, sr |-> 0, vad |-> VadLocals,
     audio_buffer |-> NoSamples, stop_flag |-> FALSE, listening |-> FALSE,
     elapsed |-> 0, why |-> "-", fed |-> NoSamples, nin |-> 0,
     applied |-> Nothing, sharedThen |-> Nothing, announcedAt |-> 0,
     flagFirst |-> FALSE, asked |-> FALSE, prog |-> << >>, at |-> 0, held |-> {}]

\* The future of tokio::spawn(async move { ... }) holding the moved
\* vad_config snapshot and the stream's sample rate: `if vad_config.enabled`
\* picks run_vad_capture or run_continuous_capture.
Spawned(config, sr) ==
    [NoTask EXCEPT !.status = "running",
                   !.mode = IF config.enabled THEN "vad" ELSE "continuous",
                   !.pc = IF config.enabled THEN "loop" ELSE "init",
                   !.config = config, !.sr = sr]

\* A task that reads the shared configuration at every step.
SharedConfig(t) == vad_config

\* The configuration a task applies: the `config` parameter moved into it.
TaskConfig(t) == task[t].config

\* tk after a step that read its configuration.
Used(tk, t) ==
    [tk EXCEPT !.applied = Some(TaskConfig(t)), !.sharedThen = Some(vad_config)]

NoLocals == [config |-> Nothing, sr |-> 0, snapshot |-> Nothing, task |-> None,
             flagged |-> FALSE, clean |-> FALSE, alone |-> FALSE, announcedAt |-> 0,
             flagFirst |-> FALSE, prog |-> << >>, at |-> 0, held |-> {}]

NoObs == [okSince |-> FALSE, okLive |-> FALSE, quiet |-> FALSE]

NoReturn == [op |-> "none", arg |-> NoData, val |-> NoData, n |-> 0]

CtlIdle ==
    /\ pc = [c \in Clients |-> "idle"]
    /\ loc = [c \in Clients |-> NoLocals]
    /\ ret = [c \in Clients |-> NoReturn]
    /\ events = << >>
    /\ ncalls = 0
    /\ obs = NoObs

\* The runs of equal samples a stream may deliver next to a task: single
\* samples for the small hops, whole frames for the large ones, and single
\* samples or a whole second in continuous mode.
Inputs(tk) ==
    IF tk.mode = "continuous"
    THEN { Run(0, 1), Run(-40, 1), Run(-40, tk.sr) }
    ELSE IF tk.config.hop_size <= 1
    THEN { Run(v, 1) : v \in SampleValues \ {14} }
    ELSE IF tk.config.hop_size = 2
    THEN { Run(v, n) : v \in {0, 14}, n \in {1, 2} }
    ELSE { Run(v, tk.config.hop_size) : v \in SampleValues \ {14} }

\* The same, of the amplitudes vals only.
InputsOf(tk, vals) == { r \in Inputs(tk) : r.v \in vals }

Running(t) == task[t].status = "running"

InVad(t) == Running(t) /\ task[t].mode = "vad"

InCont(t) == Running(t) /\ task[t].mode = "continuous"

Emit(evs) == events' = events \o evs

RECURSIVE SumOver(_, _)
SumOver(f, ids) ==
    IF ids = {} THEN 0
    ELSE LET t == CHOOSE u \in ids : TRUE
         IN  f[t] + SumOver(f, ids \ {t})

\* The runs delivered by the streams so far, and the seconds that have passed
\* for the continuous tasks.
Delivered == SumOver([t \in TaskIds |-> task[t].nin], TaskIds)

Ticked == SumOver([t \in TaskIds |-> task[t].elapsed], TaskIds)

----------------------------------------------------------------------------
(* The VAD task: run_vad_capture inside the spawned future *)

\* stream.next().await yields Some(sample): the sample is pushed and every
\* complete frame analysed.  With hop_size = 0 the inner while never ends.
VadRecv(bound, vals) ==
    \E t \in TaskIds : \E r \in InputsOf(task[t], vals) :
        /\ InVad(t) /\ task[t].pc = "loop"
        /\ Delivered < bound
        /\ LET config == TaskConfig(t)
               s == VadPush(task[t].vad, r, config, task[t].sr, t)
               tk == Used([task[t] EXCEPT !.fed = RAppend(@, r), !.nin = @ + 1], t)
           IN  IF config.hop_size = 0
               THEN /\ task' = [task EXCEPT ![t] =
                                  [tk EXCEPT !.pc = "spin",
                                             !.vad.buffer = RAppend(@, r)]]
                    /\ UNCHANGED events
               ELSE /\ task' = [task EXCEPT ![t] =
                                  [tk EXCEPT !.vad = [s EXCEPT !.out = << >>]]]
                    /\ Emit(s.out)
        /\ UNCHANGED << stream_task, is_capturing, vad_config, pc, loc, ret,
                        ncalls, obs >>

\* An end of the stream that emits the utterance in progress.
VadEndFlushing ==
    \E t \in TaskIds :
        /\ InVad(t) /\ task[t].pc = "loop"
        /\ task' = [task EXCEPT ![t].pc = "exit"]
        /\ Emit(IF task[t].vad.in_speech
                THEN << Ev("speech-detected", t,
                           samples_to_wav_b64(task[t].sr,
                               normalize_audio_level(task[t].vad.speech_buffer,
                                                     TargetRms))) >>
                ELSE << >>)
        /\ UNCHANGED << stream_task, is_capturing, vad_config, pc, loc, ret,
                        ncalls, obs >>

\* stream.next().await yields None: run_vad_capture returns.
VadEnd ==
    \E t \in TaskIds :
        /\ InVad(t) /\ task[t].pc = "loop"
        /\ task' = [task EXCEPT ![t].pc = "exit"]
        /\ UNCHANGED << stream_task, is_capturing, vad_config, pc, loc, ret,
                        events, ncalls, obs >>

\* The end of the spawned future: *guard = None.
TaskExit ==
    \E t \in TaskIds :
        /\ Running(t) /\ task[t].pc = "exit"
        /\ stream_task' = None
        /\ task' = [task EXCEPT ![t].status = "done"]
        /\ obs' = [obs EXCEPT !.okLive = FALSE]
        /\ UNCHANGED << is_capturing, vad_config, pc, loc, ret, events, ncalls >>

\* JoinHandle::abort takes effect when the future next yields at an await
\* that is pending (stream.next, the select!), or before its first poll; a
\* future past its last await, or in the endless inner loop, is not stopped.
TaskCancelled ==
    \E t \in TaskIds :
        /\ Running(t) /\ task[t].cancel /\ task[t].pc \in {"init", "loop"}
        /\ task' = [task EXCEPT ![t].status = "aborted"]
        /\ UNCHANGED << stream_task, is_capturing, vad_config, pc, loc, ret,
                        events, ncalls, obs >>

----------------------------------------------------------------------------
(* The continuous task: run_continuous_capture inside the spawned future.
   pc is "init" before the first poll, "loop" at the select!, "flush" after
   the loop, "exit" after the last notification.  why records which break
   left the loop. *)

\* let max_samples = (sr as u64 * config.max_recording_duration_secs) as usize
MaxSamples(sr, config) == sr * config.max_recording_duration_secs

\* if elapsed >= max_duration
TimeUp(elapsed, config) == elapsed >= config.max_recording_duration_secs

\* if audio_buffer.len() >= max_samples
Full(len, sr, config) == len >= MaxSamples(sr, config)

\* How many of n equal samples arriving one after the other are pushed before
\* the size or the time check breaks the loop (the push precedes both checks).
Pushed(n, tk, config) ==
    IF TimeUp(tk.elapsed, config) THEN 1
    ELSE Min(n, Max(1, MaxSamples(tk.sr, config) - RLen(tk.audio_buffer)))

\* A progress test made once per delivery, on the count after it.
ProgressAtEnd(from, to, sr) == IF to > from /\ to % sr = 0 THEN 1 ELSE 0

\* if audio_buffer.len() % (sr as usize) == 0, once per sample pushed.
ProgressMarks(from, to, sr) == (to \div sr) - (from \div sr)

\* The first poll: the listener is registered and continuous-recording-start
\* emitted.
ContBegin ==
    \E t \in TaskIds :
        /\ InCont(t) /\ task[t].pc = "init"
        /\ task' = [task EXCEPT ![t] =
                      Used([@ EXCEPT !.pc = "loop", !.listening = TRUE], t)]
        /\ Emit(<< Ev("continuous-recording-start", t,
                      TaskConfig(t).max_recording_duration_secs) >>)
        /\ UNCHANGED << stream_task, is_capturing, vad_config, pc, loc, ret,
                        ncalls, obs >>

\* A loop that tests the stop flag only after the sample has been appended.
ContRecvThenTest(bound, vals) ==
    \E t \in TaskIds : \E r \in InputsOf(task[t], vals) :
        /\ InCont(t) /\ task[t].pc = "loop"
        /\ Delivered < bound
        /\ task' = [task EXCEPT ![t] = Used([@ EXCEPT
                      !.audio_buffer = RAppend(@, Run(r.v, 1)),
                      !.fed = RAppend(@, Run(r.v, 1)),
                      !.nin = @ + 1,
                      !.pc = IF task[t].stop_flag THEN "flush" ELSE "loop",
                      !.why = IF task[t].stop_flag THEN "flag" ELSE @], t)]
        /\ UNCHANGED << stream_task, is_capturing, vad_config, pc, loc, ret,
                        events, ncalls, obs >>

\* stream.next() yields Some(sample) in the select!.
ContRecv(bound, vals) ==
    \E t \in TaskIds : \E r \in InputsOf(task[t], vals) :
        /\ InCont(t) /\ task[t].pc = "loop"
        /\ Delivered < bound
        /\ LET tk == task[t]
               config == TaskConfig(t)
               k == Pushed(r.n, tk, config)
               len == RLen(tk.audio_buffer)
               stop == Full(len + k, tk.sr, config) \/ TimeUp(tk.elapsed, config)
           IN  IF tk.stop_flag
               THEN /\ task' = [task EXCEPT ![t].pc = "flush", ![t].why = "flag",
                                            ![t].fed = RAppend(@, Run(r.v, 1)),
                                            ![t].nin = @ + 1]
                    /\ UNCHANGED events
               ELSE /\ task' = [task EXCEPT ![t] = Used([@ EXCEPT
                          !.audio_buffer = RAppend(@, Run(r.v, k)),
                          !.fed = RAppend(@, Run(r.v, k)),
                          !.nin = @ + 1,
                          !.pc = IF stop THEN "flush" ELSE "loop",
                          !.why = IF Full(len + k, tk.sr, config) THEN "full"
                                  ELSE IF stop THEN "time" ELSE @], t)]
                    /\ Emit([i \in 1..ProgressMarks(len, len + k, tk.sr) |->
                               Ev("recording-progress", t, tk.elapsed)])
        /\ UNCHANGED << stream_task, is_capturing, vad_config, pc, loc, ret,
                        ncalls, obs >>

\* The 10 ms sleep of the select! fires and the top of the loop finds the
\* stop flag set.
ContTimer ==
    \E t \in TaskIds :
        /\ InCont(t) /\ task[t].pc = "loop"
        /\ task[t].stop_flag
        /\ task' = [task EXCEPT ![t].pc = "flush", ![t].why = "flag"]
        /\ UNCHANGED << stream_task, is_capturing, vad_config, pc, loc, ret,
                        events, ncalls, obs >>

\* stream.next() yields None.
ContEndOfStream ==
    \E t \in TaskIds :
        /\ InCont(t) /\ task[t].pc = "loop"
        /\ task' = [task EXCEPT ![t].pc = "flush", ![t].why = "eos"]
        /\ UNCHANGED << stream_task, is_capturing, vad_config, pc, loc, ret,
                        events, ncalls, obs >>

\* A second of wall-clock time passes (start_time.elapsed()).
ContTick(bound) ==
    \E t \in TaskIds :
        /\ InCont(t) /\ task[t].pc = "loop"
        /\ Ticked < bound
        /\ task' = [task EXCEPT ![t].elapsed = @ + 1]
        /\ UNCHANGED << stream_task, is_capturing, vad_config, pc, loc, ret,
                        events, ncalls, obs >>

\* What the code after the loop emits for the accumulated buffer.
ContResult(tk, config, me) ==
    LET cleaned == normalize_audio_level(
                       apply_noise_gate(tk.audio_buffer, config.noise_gate_threshold),
                       TargetRms)
        wav == samples_to_wav_b64(tk.sr, cleaned)
    IN  IF tk.audio_buffer # << >>
        THEN IF wav.ok THEN Ev("speech-detected", me, wav)
                       ELSE Ev("audio-encoding-error", me, wav.err)
        ELSE Ev("audio-encoding-error", me, "No audio recorded")

\* After the loop: unlisten, the result notification, the stopped
\* notification.
ContFlush ==
    \E t \in TaskIds :
        /\ InCont(t) /\ task[t].pc = "flush"
        /\ task' = [task EXCEPT ![t] =
                      Used([@ EXCEPT !.pc = "exit", !.listening = FALSE], t)]
        /\ Emit(<< ContResult(task[t], TaskConfig(t), t),
                   Ev("continuous-recording-stopped", t, NoData) >>)
        /\ UNCHANGED << stream_task, is_capturing, vad_config, pc, loc, ret,
                        ncalls, obs >>

----------------------------------------------------------------------------
(* Commands.  A client in "idle" issues a command; ret[c].n flips whenever a
   command of client c returns. *)

CanCall(c, bound) == pc[c] = "idle" /\ ncalls < bound

Return(c, op, arg, val) ==
    ret' = [ret EXCEPT ![c] = [op |-> op, arg |-> arg, val |-> val, n |-> 1 - @.n]]

\* An order that spawns the task before the flag is raised.
SpawnFirstOrder ==
    << "start_config", "start_device", "start_snapshot", "start_spawn",
       "start_flag", "start_emit", "start_register" >>

\* The order of the effects of start_system_audio_capture after its check.
StartOrder ==
    << "start_config", "start_device", "start_snapshot", "start_flag",
       "start_emit", "start_spawn", "start_register" >>

\* The position after step p of a start.
After(p) ==
    LET i == CHOOSE k \in 1..Len(StartOrder) : StartOrder[k] = p
    IN  IF i = Len(StartOrder) THEN "idle" ELSE StartOrder[i + 1]

Goto(c, p) == pc' = [pc EXCEPT ![c] = p]

\* Client c is inside start_system_audio_capture, past its check.
InStart(c) == \E i \in 1..Len(StartOrder) : pc[c] = StartOrder[i]

\* What clients pass as vad_config to start and as config to update.
BadSensitivity == [DefaultVadConfig EXCEPT !.sensitivity_rms = MaxSensitivity + 1]

BadDuration ==
    [DefaultVadConfig EXCEPT !.max_recording_duration_secs = MaxDurationSecs + 1]

StartArgs == { Nothing, Some(ContCfg(1)), Some(BadSensitivity) }

UpdateArgs == { VadCfg(1, 1, 1, 1), BadSensitivity, BadDuration }

\* What SpeakerInput::new_with_device and stream.sample_rate() give: a
\* failure to open the device, or the rate of the stream.
DeviceError == -1

DeviceOutcomes == { DeviceError, MinSampleRate - 1, MinSampleRate, MaxSampleRate + 1 }

\* A check that never finds a handle.
HandleIgnored == FALSE

\* start_system_audio_capture: the already-capturing check under the
\* stream_task lock.
AlreadyCapturing == stream_task # None

StartCheck ==
    \E c \in Clients : \E arg \in StartArgs :
        /\ CanCall(c, MaxCalls)
        /\ ncalls' = ncalls + 1
        /\ IF AlreadyCapturing
           THEN /\ Return(c, "start", arg, "Capture already running")
                /\ UNCHANGED pc
           ELSE /\ Goto(c, StartOrder[1])
                /\ UNCHANGED ret
        /\ loc' = [d \in Clients |->
                     IF d = c /\ ~AlreadyCapturing
                     THEN [NoLocals EXCEPT !.config = arg]
                     ELSE [loc[d] EXCEPT !.alone = FALSE]]
        /\ UNCHANGED << stream_task, is_capturing, vad_config, task, events, obs >>

\* if let Some(config) = vad_config { *vad_cfg = config; }
StartConfig ==
    \E c \in Clients :
        /\ pc[c] = "start_config"
        /\ Goto(c, After("start_config"))
        /\ vad_config' = IF loc[c].config # Nothing THEN loc[c].config[1]
                         ELSE vad_config
        /\ UNCHANGED << stream_task, is_capturing, loc, ret, task, events,
                        ncalls, obs >>

\* SpeakerInput::new_with_device(device_id)?, stream.sample_rate() and its
\* range check.
StartDevice ==
    \E c \in Clients : \E d \in DeviceOutcomes :
        /\ pc[c] = "start_device"
        /\ IF d = DeviceError
           THEN /\ Goto(c, "idle")
                /\ Return(c, "start", loc[c].config, "Failed to access system audio")
                /\ UNCHANGED loc
           ELSE IF ~ValidSampleRate(d)
           THEN /\ Goto(c, "idle")
                /\ Return(c, "start", loc[c].config, "Invalid sample rate")
                /\ UNCHANGED loc
           ELSE /\ Goto(c, After("start_device"))
                /\ loc' = [loc EXCEPT ![c].sr = d]
                /\ UNCHANGED ret
        /\ UNCHANGED << stream_task, is_capturing, vad_config, task, events,
                        ncalls, obs >>

\* let vad_config = state.vad_config.lock()?.clone();
StartSnapshot ==
    \E c \in Clients :
        /\ pc[c] = "start_snapshot"
        /\ Goto(c, After("start_snapshot"))
        /\ loc' = [loc EXCEPT ![c].snapshot = Some(vad_config)]
        /\ UNCHANGED << stream_task, is_capturing, vad_config, ret, task, events,
                        ncalls, obs >>

\* *state.is_capturing.lock()? = true;
StartFlag ==
    \E c \in Clients :
        /\ pc[c] = "start_flag"
        /\ Goto(c, After("start_flag"))
        /\ is_capturing' = TRUE
        /\ loc' = [loc EXCEPT ![c].flagged = TRUE, ![c].clean = TRUE]
        /\ UNCHANGED << stream_task, vad_config, ret, task, events, ncalls, obs >>

\* app_clone.emit("capture-started", sr)
StartEmit ==
    \E c \in Clients :
        /\ pc[c] = "start_emit"
        /\ Goto(c, After("start_emit"))
        /\ Emit(<< Ev("capture-started", None, loc[c].sr) >>)
        /\ loc' = [loc EXCEPT ![c].announcedAt = Len(events) + 1,
                              ![c].flagFirst = loc[c].flagged]
        /\ UNCHANGED << stream_task, is_capturing, vad_config, ret, task,
                        ncalls, obs >>

\* let task = tokio::spawn(async move { ... });
StartSpawn ==
    \E c \in Clients :
        /\ pc[c] = "start_spawn"
        /\ Goto(c, After("start_spawn"))
        /\ LET t == CHOOSE u \in TaskIds :
                        /\ task[u].status = "unborn"
                        /\ \A w \in TaskIds : w < u => task[w].status # "unborn"
           IN  /\ task' = [task EXCEPT ![t] =
                             [Spawned(loc[c].snapshot[1], loc[c].sr) EXCEPT
                                 !.announcedAt = loc[c].announcedAt,
                                 !.flagFirst = loc[c].flagged /\ loc[c].flagFirst]]
               /\ loc' = [loc EXCEPT ![c].task = t]
        /\ UNCHANGED << stream_task, is_capturing, vad_config, ret, events,
                        ncalls, obs >>

\* *state_clone.stream_task.lock()? = Some(task); Ok(())
StartRegister ==
    \E c \in Clients :
        /\ pc[c] = "start_register"
        /\ Goto(c, After("start_register"))
        /\ stream_task' = loc[c].task
        /\ Return(c, "start", loc[c].config, "Ok")
        /\ loc' = [loc EXCEPT ![c] = NoLocals]
        /\ obs' = [okSince |-> TRUE, okLive |-> TRUE, quiet |-> loc[c].clean]
        /\ UNCHANGED << is_capturing, vad_config, task, events, ncalls >>

\* A stop call takes a step: no start now in progress, and none that has
\* returned, is free of a stop since it raised the flag.
StopSeen(o) ==
    /\ loc' = [c \in Clients |-> [loc[c] EXCEPT !.clean = FALSE]]
    /\ obs' = [o EXCEPT !.quiet = FALSE]

\* A stop that leaves the flag raised.
FlagKept == TRUE

\* What stop_system_audio_capture writes to is_capturing.
FlagAfterStop == FALSE

\* stop_system_audio_capture: if let Some(task) = guard.take() { task.abort(); }
\* alone records that no start is in progress; a start that begins before
\* the stop returns withdraws it.
StopTake ==
    \E c \in Clients :
        /\ CanCall(c, MaxCalls)
        /\ ncalls' = ncalls + 1
        /\ Goto(c, "stop_flag")
        /\ stream_task' = None
        /\ task' = IF stream_task # None
                   THEN [task EXCEPT ![stream_task].cancel = TRUE]
                   ELSE task
        /\ loc' = [d \in Clients |->
                     [loc[d] EXCEPT !.clean = FALSE,
                                    !.alone = IF d = c
                                              THEN ~\E e \in Clients : InStart(e)
                                              ELSE @]]
        /\ obs' = [obs EXCEPT !.okSince = FALSE, !.okLive = FALSE, !.quiet = FALSE]
        /\ UNCHANGED << is_capturing, vad_config, ret, events >>

\* ... sleep 300 ms; *state.is_capturing.lock()? = false;
StopFlag ==
    \E c \in Clients :
        /\ pc[c] = "stop_flag"
        /\ Goto(c, "stop_emit")
        /\ is_capturing' = FlagAfterStop
        /\ StopSeen(obs)
        /\ UNCHANGED << stream_task, vad_config, ret, task, events, ncalls >>

\* ... sleep 200 ms; app.emit("capture-stopped", ()); Ok(())
StopEmit ==
    \E c \in Clients :
        /\ pc[c] = "stop_emit"
        /\ Goto(c, "idle")
        /\ Emit(<< Ev("capture-stopped", None, NoData) >>)
        /\ Return(c, "stop", NoData, "Ok")
        /\ StopSeen(obs)
        /\ UNCHANGED << stream_task, is_capturing, vad_config, task, ncalls >>

\* update_vad_config
UpdateVadConfig ==
    \E c \in Clients : \E config \in UpdateArgs :
        /\ CanCall(c, MaxCalls)
        /\ ncalls' = ncalls + 1
        /\ IF Validate(config) = "Ok"
           THEN /\ vad_config' = config
                /\ Return(c, "update", Some(config), "Ok")
           ELSE /\ UNCHANGED vad_config
                /\ Return(c, "update", Some(config), Validate(config))
        /\ UNCHANGED << stream_task, is_capturing, pc, loc, task, events, obs >>

\* get_vad_config
GetVadConfig ==
    \E c \in Clients :
        /\ CanCall(c, MaxCalls)
        /\ ncalls' = ncalls + 1
        /\ Return(c, "get_config", NoData, Some(vad_config))
        /\ UNCHANGED << stream_task, is_capturing, vad_config, pc, loc, task,
                        events, obs >>

\* get_capture_status
GetCaptureStatus ==
    \E c \in Clients :
        /\ CanCall(c, MaxCalls)
        /\ ncalls' = ncalls + 1
        /\ Return(c, "get_status", NoData, is_capturing)
        /\ UNCHANGED << stream_task, is_capturing, vad_config, pc, loc, task,
                        events, obs >>

\* manual_stop_continuous: app.emit("manual-stop-continuous") runs the
\* listener of every continuous task that has registered one.
ManualStopEmit(callers, bound) ==
    \E c \in callers :
        /\ CanCall(c, bound)
        /\ pc' = [pc EXCEPT ![c] = "manual_sleep"]
        /\ ncalls' = ncalls + 1
        /\ task' = [t \in TaskIds |->
                      [task[t] EXCEPT
                          !.stop_flag = @ \/ task[t].listening,
                          !.asked = @ \/ (stream_task = t /\ InCont(t))]]
        /\ UNCHANGED << stream_task, is_capturing, vad_config, loc, ret, events, obs >>

\* ... then sleeps 20 ms and returns Ok.
ManualStopReturn ==
    \E c \in Clients :
        /\ pc[c] = "manual_sleep"
        /\ pc' = [pc EXCEPT ![c] = "idle"]
        /\ Return(c, "manual_stop", NoData, "Ok")
        /\ UNCHANGED << stream_task, is_capturing, vad_config, loc, task, events,
                        ncalls, obs >>

----------------------------------------------------------------------------
(* The capture controller: clients issuing commands, and the tasks they
   spawn.  AudioState starts with no task, not capturing, and the default
   configuration. *)

Init ==
    /\ CtlIdle
    /\ stream_task = None
    /\ is_capturing = FALSE
    /\ vad_config = DefaultVadConfig
    /\ task = [t \in TaskIds |-> NoTask]

Next ==
    \/ StartCheck \/ StartConfig \/ StartDevice \/ StartSnapshot \/ StartFlag
    \/ StartEmit \/ StartSpawn \/ StartRegister
    \/ StopTake \/ StopFlag \/ StopEmit
    \/ UpdateVadConfig \/ GetVadConfig \/ GetCaptureStatus
    \/ ManualStopEmit(Clients, MaxCalls) \/ ManualStopReturn
    \/ VadRecv(MaxCtlInputs, CtlValues) \/ VadEnd \/ TaskExit \/ TaskCancelled
    \/ ContBegin \/ ContRecv(MaxCtlInputs, CtlValues) \/ ContTimer
    \/ ContEndOfStream \/ ContTick(MaxCtlElapsed) \/ ContFlush

Spec == Init /\ [][Next]_vars

----------------------------------------------------------------------------
(* The segmenter alone: one VAD task on one stream *)

\* The configurations and sample rates the segmenter is followed under.
VadCases ==
    { << VadCfg(1, s, m, p), MinSampleRate >> :
        s \in {0, 1, 2}, m \in {1, 2}, p \in {0, 1, 2} }
    \cup { << VadCfg(1, 1, 0, 1), MinSampleRate >>,
           << VadCfg(2, 1, 2, 1), 16000 >>,
           << VadCfg(0, 1, 1, 1), MinSampleRate >> }
    \cup { << VadCfg(BigHop, s, 2, p), MinSampleRate >> : s \in {1, 2}, p \in {0, 2} }

InitVad ==
    /\ CtlIdle
    /\ stream_task = 1
    /\ is_capturing = TRUE
    /\ \E case \in VadCases :
        /\ vad_config = case[1]
        /\ task = [t \in TaskIds |->
                     IF t = 1 THEN Spawned(case[1], case[2]) ELSE NoTask]

NextVad == VadRecv(MaxInputs, SampleValues) \/ VadEnd \/ TaskExit

SpecVad == InitVad /\ [][NextVad]_vars

----------------------------------------------------------------------------
(* Properties of the segmenter (SpecVad: the task is task 1) *)

\* k frames of one verdict.
Frames(k, speech) == [i \in 1..k |-> speech]

\* The verdicts of sil silent frames, sp speech frames, sil silent frames.
Scenario(sil, sp) == Frames(sil, FALSE) \o Frames(sp, TRUE) \o Frames(sil, FALSE)

Detected == Count(events, "speech-detected")

Discarded == Count(events, "speech-discarded")

\* The look-back and sp speech frames stay within the 30 s cap.
WithinCap(tk, sp) ==
    (Min(tk.config.silence_chunks, tk.config.pre_speech_chunks) + sp)
        * tk.config.hop_size <= MaxUtterance(tk.sr)

\* C3 as stated: whenever the frames analysed so far are silence_chunks silent
\* frames, min_speech_chunks speech frames and silence_chunks silent frames,
\* exactly one speech-detected and no speech-discarded have been emitted.
C3_AsStated ==
    LET tk == task[1]
    IN  /\ tk.vad.classes # << >>
        /\ tk.vad.classes = Scenario(tk.config.silence_chunks, tk.config.min_speech_chunks)
        => Detected = 1 /\ Discarded = 0

\* C3 amended: the same, for configurations with silence_chunks >= 1 and
\* min_speech_chunks >= 1 whose look-back plus min_speech_chunks frames do not
\* exceed the 30 s safety cap.
C3_ScenarioA ==
    LET tk == task[1]
    IN  /\ tk.config.silence_chunks >= 1
        /\ tk.config.min_speech_chunks >= 1
        /\ WithinCap(tk, tk.config.min_speech_chunks)
        /\ tk.vad.classes = Scenario(tk.config.silence_chunks, tk.config.min_speech_chunks)
        => Detected = 1 /\ Discarded = 0

C3_Witness ==
    LET tk == task[1]
    IN  /\ tk.config.silence_chunks = 2
        /\ tk.config.min_speech_chunks = 2
        /\ tk.vad.classes = Scenario(2, 2)
        /\ Detected = 1 /\ Discarded = 0
        /\ ~tk.vad.in_speech

\* C4 as stated: whenever the frames analysed so far are silence_chunks silent
\* frames, min_speech_chunks - 1 speech frames and silence_chunks silent
\* frames, exactly one speech-discarded and no speech-detected have been emitted.
C4_AsStated ==
    LET tk == task[1]
    IN  /\ tk.config.min_speech_chunks >= 1
        /\ tk.vad.classes # << >>
        /\ tk.vad.classes = Scenario(tk.config.silence_chunks,
                                     tk.config.min_speech_chunks - 1)
        => Discarded = 1 /\ Detected = 0

\* C4 amended: the same, for configurations with silence_chunks >= 1 and
\* min_speech_chunks >= 2 whose look-back plus min_speech_chunks - 1 frames do
\* not exceed the 30 s safety cap.
C4_ScenarioB ==
    LET tk == task[1]
    IN  /\ tk.config.silence_chunks >= 1
        /\ tk.config.min_speech_chunks >= 2
        /\ WithinCap(tk, tk.config.min_speech_chunks - 1)
        /\ tk.vad.classes = Scenario(tk.config.silence_chunks,
                                     tk.config.min_speech_chunks - 1)
        => Discarded = 1 /\ Detected = 0

C4_Witness ==
    LET tk == task[1]
    IN  /\ tk.config.silence_chunks = 2
        /\ tk.config.min_speech_chunks = 2
        /\ tk.vad.classes = Scenario(2, 1)
        /\ Discarded = 1 /\ Detected = 0
        /\ ~tk.vad.in_speech

----------------------------------------------------------------------------
(* Continuous capture alone: one continuous task on one stream, and clients
   that may ask it to stop *)

ContCases ==
    { << ContCfg(d), sr >> : d \in {0, 1, 2}, sr \in {MinSampleRate, 16000} }

InitCont ==
    /\ CtlIdle
    /\ stream_task = 1
    /\ is_capturing = TRUE
    /\ \E case \in ContCases :
        /\ vad_config = case[1]
        /\ task = [t \in TaskIds |->
                     IF t = 1 THEN Spawned(case[1], case[2]) ELSE NoTask]

NextCont ==
    \/ ContBegin \/ ContRecv(MaxContInputs, SampleValues) \/ ContTimer
    \/ ContEndOfStream \/ ContTick(MaxElapsed) \/ ContFlush \/ TaskExit
    \/ ManualStopEmit({1}, MaxStops) \/ ManualStopReturn

SpecCont == InitCont /\ [][NextCont]_vars

----------------------------------------------------------------------------
(* Properties of continuous capture (SpecCont: the task is task 1) *)

\* The notifications of task t, in order.
OfTask(t) == SelectSeq(events, LAMBDA e : e.src = t)

\* C5 as stated: the accumulated samples never exceed
\* sample_rate * max_recording_duration_secs, and a capture of at most 1 s at
\* 16000 Hz that stopped by itself (buffer full or time up) holds at most
\* 16000 samples and has emitted exactly one speech-detected, followed by
\* continuous-recording-stopped as its last notification.
C5_AsStated ==
    LET tk == task[1]
        mine == OfTask(1)
    IN  /\ RLen(tk.audio_buffer) <= MaxSamples(tk.sr, tk.config)
        /\ ( /\ tk.config.max_recording_duration_secs = 1 /\ tk.sr = 16000
             /\ tk.pc = "exit" /\ tk.why \in {"full", "time"}
             => /\ RLen(tk.audio_buffer) <= 16000
                /\ Count(mine, "speech-detected") = 1
                /\ Len(mine) >= 2
                /\ mine[Len(mine) - 1].name = "speech-detected"
                /\ mine[Len(mine)].name = "continuous-recording-stopped" )

\* What holds of C5: the bound for every limit of at least one second, one
\* sample at most for a limit of zero, and the notifications of the 1 s case.
C5_Bounded ==
    LET tk == task[1]
        mine == OfTask(1)
    IN  /\ RLen(tk.audio_buffer) <= Max(1, MaxSamples(tk.sr, tk.config))
        /\ ( /\ tk.config.max_recording_duration_secs = 1 /\ tk.sr = 16000
             /\ tk.pc = "exit" /\ tk.why \in {"full", "time"}
             => /\ RLen(tk.audio_buffer) <= 16000
                /\ Count(mine, "speech-detected") = 1
                /\ Len(mine) >= 2
                /\ mine[Len(mine) - 1].name = "speech-detected"
                /\ mine[Len(mine)].name = "continuous-recording-stopped" )

----------------------------------------------------------------------------
(* Properties of the capture controller (Spec) *)

\* A command op of client c returns in this step.
Returns(c, op) == ret'[c].n # ret[c].n /\ ret'[c].op = op

\* Client c's start takes its first step, the already-capturing check.
StartChecks(c) ==
    /\ pc[c] = "idle"
    /\ pc'[c] = StartOrder[1] \/ Returns(c, "start")

\* Client c's start is rejected at the check, and nothing is spawned.
Rejected(c) ==
    /\ ret'[c].val = "Capture already running"
    /\ pc'[c] = "idle"
    /\ task' = task

\* The ranges sensitivity_rms in [0, 1] and max_recording_duration_secs <= 3600.
InRange(config) ==
    /\ config.sensitivity_rms >= 0 /\ config.sensitivity_rms <= MaxSensitivity
    /\ config.max_recording_duration_secs <= MaxDurationSecs

\* The tasks that are running and have not been aborted.
Live == { t \in TaskIds : Running(t) /\ ~task[t].cancel }

\* C1 as stated: under any interleaving of start and stop calls, at most one
\* processing task is running at any time.
C1_AtMostOneTask == Cardinality(Live) <= 1

\* C2 as stated: a start whose check runs after a start has succeeded, with no
\* stop called since, fails with "Capture already running" and spawns no task.
C2_AsStated ==
    [][\A c \in Clients : StartChecks(c) /\ obs.okSince => Rejected(c)]_vars

\* C2 amended: a start whose check runs after a start has succeeded, with no
\* stop called and no processing task completed since, fails with "Capture
\* already running" and spawns no task.
C2_SecondStartFails ==
    [][\A c \in Clients : StartChecks(c) /\ obs.okLive => Rejected(c)]_vars

C2_Witness ==
    \E c \in Clients :
        /\ obs.okLive
        /\ ret[c].op = "start" /\ ret[c].val = "Capture already running"
        /\ \E d \in Clients : ret[d].op = "start" /\ ret[d].val = "Ok"

\* C6 as stated: whatever starts and updates have been called, the shared
\* configuration has sensitivity_rms in [0, 1] and
\* max_recording_duration_secs <= 3600.
C6_ActiveConfigInRange == InRange(vad_config)

\* C7: an update with sensitivity_rms outside [0, 1] or
\* max_recording_duration_secs > 3600 returns an error and leaves the shared
\* configuration unchanged; any other update returns Ok and makes the shared
\* configuration the supplied one; a get returns the shared configuration.
C7_UpdateAndGet ==
    [][\A c \in Clients :
        /\ Returns(c, "update") =>
              LET config == ret'[c].arg[1]
              IN  IF InRange(config)
                  THEN ret'[c].val = "Ok" /\ vad_config' = config
                  ELSE ret'[c].val # "Ok" /\ vad_config' = vad_config
        /\ Returns(c, "get_config") =>
              ret'[c].val = Some(vad_config) /\ vad_config' = vad_config]_vars

C7_Witness ==
    \E c, d \in Clients :
        /\ ret[c].op = "update" /\ ret[c].val = "Ok"
        /\ ret[d].op = "get_config" /\ ret[d].val = ret[c].arg
        /\ ret[d].val # Some(DefaultVadConfig)

\* C8: the configuration a task applies at any step is the snapshot it was
\* spawned with, whatever the shared configuration has become.
C8_SnapshotApplied ==
    \A t \in TaskIds :
        task[t].applied # Nothing => task[t].applied = Some(task[t].config)

C8_Witness ==
    \E t \in TaskIds : \E c \in Clients :
        /\ task[t].applied # Nothing
        /\ task[t].sharedThen # task[t].applied
        /\ ret[c].op = "update" /\ ret[c].val = "Ok"
        /\ task[t].sharedThen = ret[c].arg

\* The spawning start had raised the flag before it emitted capture-started
\* and before it spawned task t, and capture-started precedes every
\* notification of t.
AnnouncedFirst(t) ==
    /\ task[t].flagFirst
    /\ task[t].announcedAt \in 1..Len(events)
    /\ events[task[t].announcedAt].name = "capture-started"
    /\ \A i \in 1..Len(events) : events[i].src = t => i > task[t].announcedAt

\* C9: a start raises the capturing flag before it emits capture-started and
\* before it spawns the task, capture-started precedes every notification of
\* the task, and a get_capture_status after a successful start, with no stop
\* call active since that start raised the flag, returns true.
C9_FlagBeforeSpawn ==
    /\ [](\A t \in TaskIds : task[t].status # "unborn" => AnnouncedFirst(t))
    /\ [](obs.quiet => is_capturing)
    /\ [][\A c \in Clients :
            Returns(c, "get_status") => ret'[c].val = is_capturing]_vars

C9_Witness ==
    \E c \in Clients : \E t \in TaskIds :
        /\ obs.quiet
        /\ ret[c].op = "get_status" /\ ret[c].val = TRUE
        /\ \E i \in 1..Len(events) : events[i].src = t

\* C10 as stated: the handle of a task that has run to completion is not
\* registered.
C10_HandleCleared ==
    \A t \in TaskIds : task[t].status = "done" => stream_task # t

\* C11: stop first takes and aborts the registered task, then clears the
\* flag, then emits capture-stopped and returns Ok; when no start overlapped
\* it, it returns with no handle registered and the flag false, whether or not
\* anything was running.
C11_StopEffects ==
    [][\A c \in Clients :
        /\ pc[c] = "idle" /\ pc'[c] = "stop_flag" =>
              /\ stream_task' = None
              /\ stream_task # None => task'[stream_task].cancel
              /\ is_capturing' = is_capturing /\ events' = events
        /\ pc[c] = "stop_flag" /\ pc'[c] = "stop_emit" =>
              /\ is_capturing' = FALSE
              /\ events' = events
        /\ Returns(c, "stop") =>
              /\ pc[c] = "stop_emit"
              /\ ret'[c].val = "Ok"
              /\ events' = Append(events, Ev("capture-stopped", None, NoData))
              /\ loc[c].alone => stream_task' = None /\ is_capturing' = FALSE]_vars

C11_Witness ==
    \E c \in Clients : \E t \in TaskIds :
        /\ ret[c].op = "stop" /\ pc[c] = "idle" /\ loc[c].alone
        /\ task[t].cancel
        /\ stream_task = None /\ ~is_capturing
        /\ Named(events, "capture-stopped") # {}

\* The notifications of task t end with exactly one result notification
\* followed by continuous-recording-stopped.
FlushedLast(t) ==
    LET mine == OfTask(t)
        n == Len(mine)
    IN  /\ n >= 2
        /\ mine[n].name = "continuous-recording-stopped"
        /\ mine[n - 1].name \in {"speech-detected", "audio-encoding-error"}
        /\ Count(mine, "speech-detected") + Count(mine, "audio-encoding-error") = 1
        /\ mine[n - 1].name = "speech-detected" <=> task[t].audio_buffer # << >>

\* C12 as stated: a continuous capture that has ended, by itself, by manual
\* stop or by stop, has emitted exactly one result notification
\* (speech-detected for a non-empty buffer) and then
\* continuous-recording-stopped as its last notification.
C12_FlushedOnEveryEnd ==
    \A t \in TaskIds :
        task[t].mode = "continuous" /\ task[t].status \in {"done", "aborted"}
            => FlushedLast(t)

\* C13 as stated, its safety part: a manual stop requested after the start of
\* a continuous capture has returned is not lost, so a task that was asked to
\* stop and is still before or in its loop has its stop flag set; and no
\* sample is appended once the flag is set.
C13_SignalNotLost ==
    \A t \in TaskIds :
        /\ task[t].asked /\ Running(t) /\ task[t].pc \in {"init", "loop"}
              => task[t].stop_flag
        /\ task[t].why = "flag" => IsPrefix(task[t].audio_buffer, task[t].fed)
                                      /\ RLen(task[t].fed) <= RLen(task[t].audio_buffer) + 1

----------------------------------------------------------------------------
(* Further properties of the segmenter (SpecVad: the task is task 1) *)

\* C14 as stated: after any frame has been processed, speech or silent, the
\* utterance buffer holds at most sample_rate * 30 samples.
C14_CapOnEveryFrame ==
    RLen(task[1].vad.speech_buffer) <= MaxUtterance(task[1].sr)

\* The locals of the segmenter before and after a step.
Seg == task[1].vad

SegNext == task'[1].vad

\* The step analyses one frame; its verdict; the notifications it emits.
FrameDone == Len(SegNext.classes) = Len(Seg.classes) + 1

Verdict == SegNext.classes[Len(SegNext.classes)]

NewEvents == SubSeq(events', Len(events) + 1, Len(events'))

\* The step analyses a silent frame while in speech that brings the silence
\* counter to config.silence_chunks.
HangoverCompletes ==
    /\ FrameDone /\ Seg.in_speech /\ ~Verdict
    /\ Seg.silence_chunks + 1 >= task[1].config.silence_chunks

\* C15: when the hangover completes, exactly one notification is emitted,
\* speech-detected if speech_chunks >= min_speech_chunks and the buffer is
\* non-empty and speech-discarded otherwise, and the utterance buffer is
\* cleared, both counters are 0 and the state is Idle.
C15_HangoverCompletion ==
    [][HangoverCompletes =>
        /\ Len(NewEvents) = 1
        /\ NewEvents[1].name =
              IF /\ Seg.speech_chunks >= task[1].config.min_speech_chunks
                 /\ RLen(Seg.speech_buffer) + task[1].config.hop_size > 0
              THEN "speech-detected" ELSE "speech-discarded"
        /\ SegNext.speech_buffer = NoSamples
        /\ SegNext.speech_chunks = 0 /\ SegNext.silence_chunks = 0
        /\ ~SegNext.in_speech]_vars

C15_Witness ==
    /\ Seg.classes # << >> /\ ~Seg.classes[Len(Seg.classes)]
    /\ ~Seg.in_speech /\ Seg.speech_buffer = NoSamples
    /\ Detected = 1 /\ Discarded = 1
    /\ events[Len(events)].name \in {"speech-detected", "speech-discarded"}

\* The step emits neither speech-detected nor speech-discarded.
NoVerdictEmitted ==
    \A i \in 1..Len(NewEvents) :
        NewEvents[i].name \notin {"speech-detected", "speech-discarded"}

\* The step analyses a silent frame while in speech that leaves the silence
\* counter below config.silence_chunks: the utterance goes on silently.
StillHanging ==
    /\ FrameDone /\ Seg.in_speech /\ ~Verdict
    /\ Seg.silence_chunks + 1 < task[1].config.silence_chunks
    => /\ SegNext.in_speech
       /\ SegNext.silence_chunks = Seg.silence_chunks + 1
       /\ NewEvents = << >>

\* The step analyses a speech frame while in speech; it does so after a run
\* of silent frames.
SpeechGoesOn == FrameDone /\ Seg.in_speech /\ Verdict

SpeechResumes == SpeechGoesOn /\ Seg.silence_chunks >= 1

\* C16 as stated: a silent frame that leaves the silence counter below
\* config.silence_chunks does not end the utterance, a speech frame while in
\* speech resets the silence counter to 0, and a speech frame after a run of
\* fewer than config.silence_chunks silent frames does not end the utterance
\* and emits neither speech-detected nor speech-discarded.
C16_AsStated ==
    [][/\ StillHanging
       /\ SpeechGoesOn => SegNext.silence_chunks = 0
       /\ SpeechResumes => SegNext.in_speech /\ NoVerdictEmitted]_vars

\* C16 amended: the same, where the speech frame after the silent run keeps
\* the utterance and emits no verdict unless it brings the utterance buffer
\* above sample_rate * 30 samples; it never emits speech-discarded.
C16_HangoverNeedsSilence ==
    [][/\ StillHanging
       /\ SpeechGoesOn => SegNext.silence_chunks = 0
       /\ SpeechResumes =>
             /\ \A i \in 1..Len(NewEvents) : NewEvents[i].name # "speech-discarded"
             /\ RLen(Seg.speech_buffer) + task[1].config.hop_size
                   <= MaxUtterance(task[1].sr)
                => SegNext.in_speech /\ NoVerdictEmitted]_vars

C16_Witness ==
    LET n == Len(Seg.classes)
    IN  /\ task[1].config.silence_chunks = 2
        /\ n >= 3
        /\ Seg.classes[n - 2] /\ ~Seg.classes[n - 1] /\ Seg.classes[n]
        /\ Seg.in_speech /\ Seg.silence_chunks = 0
        /\ Detected = 0 /\ Discarded = 0

\* The samples the step receives, and the conditioned frame it analyses.
Received == RDrop(task'[1].fed, RLen(task[1].fed))

FrameAnalysed ==
    apply_noise_gate(RTake(RCat(Seg.buffer, Received), task[1].config.hop_size),
                     task[1].config.noise_gate_threshold)

\* The step analyses a speech frame while Idle.
SpeechStarts == FrameDone /\ ~Seg.in_speech /\ Verdict

\* C17 as stated: the first speech frame while Idle emits exactly one
\* speech-start, makes the utterance buffer the pre-speech contents followed
\* by the frame, empties the pre-speech buffer and sets speech_chunks to 1.
C17_AsStated ==
    [][SpeechStarts =>
        /\ Count(NewEvents, "speech-start") = 1
        /\ SegNext.speech_buffer = RCat(Seg.pre_speech, FrameAnalysed)
        /\ SegNext.pre_speech = NoSamples
        /\ SegNext.speech_chunks = 1
        /\ SegNext.in_speech]_vars

\* C17 amended: the same when the pre-speech contents and the frame together
\* hold at most sample_rate * 30 samples; in every case exactly one
\* speech-start is emitted and the pre-speech buffer is emptied.
C17_UtteranceSeeded ==
    [][SpeechStarts =>
        /\ Count(NewEvents, "speech-start") = 1
        /\ SegNext.pre_speech = NoSamples
        /\ RLen(Seg.pre_speech) + task[1].config.hop_size <= MaxUtterance(task[1].sr)
           => /\ SegNext.speech_buffer = RCat(Seg.pre_speech, FrameAnalysed)
              /\ SegNext.speech_chunks = 1
              /\ SegNext.in_speech]_vars

C17_Witness ==
    /\ Seg.classes = << FALSE, FALSE, TRUE >>
    /\ task[1].config.pre_speech_chunks = 2
    /\ Seg.in_speech /\ Seg.speech_chunks = 1
    /\ Seg.pre_speech = NoSamples
    /\ RLen(Seg.speech_buffer) = 3 * task[1].config.hop_size
    /\ Count(events, "speech-start") = 1

\* The capacity of the pre-speech buffer, and the input samples of the frames
\* analysed so far.
PreSpeechCap == task[1].config.pre_speech_chunks * task[1].config.hop_size

Analysed == RTake(task[1].fed, Len(Seg.classes) * task[1].config.hop_size)

\* The pre-speech buffer is the conditioned most recent input samples, as many
\* as it holds.
HoldsMostRecent ==
    Seg.pre_speech =
        apply_noise_gate(RDrop(Analysed, RLen(Analysed) - RLen(Seg.pre_speech)),
                         task[1].config.noise_gate_threshold)

\* C18: the pre-speech buffer never holds more than pre_speech_chunks *
\* hop_size samples and is empty whenever the state is or becomes InSpeech or
\* returns to Idle; a silent frame while Idle appends one frame and evicts from
\* the front, so that the buffer is the most recent min(k, pre_speech_chunks)
\* silent frames since Idle; a frame while InSpeech does not write it.
C18_PreSpeechWindow ==
    /\ [](task[1].config.hop_size >= 1 =>
            /\ RLen(Seg.pre_speech) <= PreSpeechCap
            /\ Seg.in_speech => Seg.pre_speech = NoSamples
            /\ HoldsMostRecent)
    /\ [][/\ FrameDone /\ ~Seg.in_speech /\ ~Verdict =>
                RLen(SegNext.pre_speech) =
                    Min(RLen(Seg.pre_speech) + task[1].config.hop_size, PreSpeechCap)
          /\ FrameDone /\ (Seg.in_speech \/ Verdict) =>
                SegNext.pre_speech = NoSamples]_vars

C18_Witness ==
    /\ Seg.classes = << FALSE, FALSE, FALSE >>
    /\ task[1].config.pre_speech_chunks = 2 /\ task[1].config.hop_size = 1
    /\ RLen(Seg.pre_speech) = 2 /\ Len(Seg.pre_speech) = 2
    /\ RAt(task[1].fed, 1) # RAt(task[1].fed, 3)

\* The utterance buffer with the frame of this step appended, and the number
\* of trailing samples the claim removes from it.
WithFrame == RCat(Seg.speech_buffer, FrameAnalysed)

ToTrim ==
    Max(0, (Seg.silence_chunks + 1) * task[1].config.hop_size
               - (task[1].sr * 15) \div 100)

\* C19: an utterance accepted at hangover completion is emitted as the
\* encoding of the normalised buffer without its last
\* max(0, silence_chunks * hop_size - sample_rate * 15 / 100) samples.
C19_TrailingSilenceTrimmed ==
    [][/\ HangoverCompletes
       /\ Seg.speech_chunks >= task[1].config.min_speech_chunks
       => \A buf \in { WithFrame } :
          \A kept \in { RTake(buf, RLen(buf) - ToTrim) } :
             /\ ToTrim < RLen(buf)
             /\ NewEvents[1].name = "speech-detected"
             /\ NewEvents[1].data.data_size = 2 * RLen(kept)
             /\ NewEvents[1].data =
                   samples_to_wav_b64(task[1].sr,
                       normalize_audio_level(kept, TargetRms))]_vars

C19_Witness ==
    /\ Seg.classes = << TRUE, TRUE, FALSE >>
    /\ task[1].config.hop_size = BigHop /\ task[1].config.silence_chunks = 1
    /\ Len(events) >= 1
    /\ events[Len(events)].name = "speech-detected"
    /\ events[Len(events)].data.data_size = 2 * (2 * BigHop + (MinSampleRate * 15) \div 100)

\* The i-th run of hop_size consecutive samples of the input, in arrival order.
Chunk(i) ==
    RTake(RDrop(task[1].fed, (i - 1) * task[1].config.hop_size),
          task[1].config.hop_size)

\* The task has received input and is not inside the frame loop.
Handled == task[1].fed # NoSamples /\ task[1].pc # "spin"

\* C20: the i-th analysed frame is the i-th run of hop_size consecutive input
\* samples, the input buffer is exactly the input that follows the analysed
\* frames (so no sample is in two frames and none is skipped), and once the
\* incoming samples have been handled fewer than hop_size samples wait in it.
C20_WholeFramesInOrder ==
    /\ \A i \in 1..Len(Seg.classes) :
          Seg.classes[i] =
              IsSpeech(apply_noise_gate(Chunk(i), task[1].config.noise_gate_threshold),
                       task[1].config)
    /\ RLen(task[1].fed) =
          Len(Seg.classes) * task[1].config.hop_size + RLen(Seg.buffer)
    /\ Seg.buffer = RDrop(task[1].fed, Len(Seg.classes) * task[1].config.hop_size)
    /\ Handled => RLen(Seg.buffer) < task[1].config.hop_size

C20_Witness ==
    /\ task[1].config.hop_size = 2
    /\ Seg.classes = << TRUE, FALSE >>
    /\ RLen(Seg.buffer) = 1
    /\ Len(Chunk(2)) = 2

----------------------------------------------------------------------------
(* Continuous capture, continued (SpecCont: the task is task 1) *)

\* The samples accumulated by the task, now and after the step.
Accumulated == RLen(task[1].audio_buffer)

AccumulatedNext == RLen(task'[1].audio_buffer)

Progress == Count(events, "recording-progress")

\* C21: after n samples have been appended exactly n \div sample_rate
\* recording-progress notifications have been emitted, and a step emits one
\* for every positive multiple of the sample rate the count passes.
C21_ProgressPerSecond ==
    /\ [](Progress = Accumulated \div task[1].sr)
    /\ [][Count(NewEvents, "recording-progress") =
             (AccumulatedNext \div task[1].sr) - (Accumulated \div task[1].sr)]_vars

C21_Witness ==
    /\ Accumulated = task[1].sr + 1
    /\ Len(task[1].audio_buffer) = 2
    /\ Progress = 1

\* What the run-time guarantees while the task is at or before its loop: it
\* is polled for the first time, the 10 ms sleep of the select! wakes it, it
\* ends once it has returned, and wall-clock time passes.  Nothing obliges
\* the stream to deliver a sample or to end.
ContFair ==
    /\ WF_vars(ContBegin) /\ WF_vars(ContTimer)
    /\ WF_vars(TaskExit) /\ WF_vars(ContTick(MaxElapsed))

SpecContLive == InitCont /\ [][NextCont]_vars /\ ContFair

\* C22: once the elapsed time has reached a limit max_recording_duration_secs
\* of at least one second the accumulation loop is left, whether or not the
\* stream delivers samples.
C22_ExitsAtTimeLimit ==
    ( /\ task[1].pc = "loop"
      /\ task[1].config.max_recording_duration_secs >= 1
      /\ TimeUp(task[1].elapsed, task[1].config) )
        ~> (task[1].pc # "loop")

----------------------------------------------------------------------------
(* The capture controller, continued (Spec) *)

\* Client c's start returns the invalid-sample-rate error in this step.
RateRefused(c) == Returns(c, "start") /\ ret'[c].val = "Invalid sample rate"

\* Client c's start has got past the check of the sample rate.
PastRateCheck(c) ==
    pc[c] \in { "start_snapshot", "start_flag", "start_emit", "start_spawn",
                "start_register" }

RateInRange(sr) == MinSampleRate <= sr /\ sr <= MaxSampleRate

\* C23: a start goes past the sample-rate check, and a task is spawned, with
\* a rate in [8000, 96000] only; the step in which a start returns the
\* invalid-sample-rate error spawns and registers nothing, leaves the flag
\* and the notifications as they were, and that call has done none of these
\* before; after a lone start refused for its rate nothing is registered,
\* the flag is false and nothing has been emitted.
C23_InvalidRateRefused ==
    /\ [](/\ \A c \in Clients : PastRateCheck(c) => RateInRange(loc[c].sr)
          /\ \A t \in TaskIds : task[t].status # "unborn" => RateInRange(task[t].sr)
          /\ \A c \in Clients :
                /\ ncalls = 1 /\ ret[c].op = "start"
                /\ ret[c].val = "Invalid sample rate"
                => /\ stream_task = None /\ ~is_capturing /\ events = << >>
                   /\ \A t \in TaskIds : task[t].status = "unborn")
    /\ [][\A c \in Clients : RateRefused(c) =>
            /\ pc[c] = "start_device" /\ pc'[c] = "idle"
            /\ UNCHANGED << stream_task, is_capturing, task, events >>
            /\ loc[c].task = None /\ ~loc[c].flagged /\ loc[c].announcedAt = 0]_vars

C23_Witness ==
    \E c \in Clients :
        /\ ncalls = 1 /\ pc[c] = "idle"
        /\ ret[c].op = "start" /\ ret[c].val = "Invalid sample rate"

----------------------------------------------------------------------------
(* The operations at the level of their mutexes.  Every operation is the
   sequence of its lock acquisitions, guard drops, suspension points and
   non-blocking statements, in program order; a participant (a client in a
   command, a spawned future) is at one step of its sequence and holds a set
   of locks.  std::sync::Mutex::lock blocks while the mutex is held. *)

\* The three mutexes of AudioState.
Locks == { "stream_task", "is_capturing", "vad_config" }

\* One step: k is "lock", "unlock", "await" (a .await that suspends),
\* "frames" (the per-frame processing) or "work" (any other statement); l is
\* the mutex of a lock or unlock; e names what the statement does.
St(kind, lock, does) == [k |-> kind, l |-> lock, e |-> does]

\* { let guard = m.lock()?; ... }  and  *m.lock()? = v;  the guard is dropped
\* at the end of the block or of the statement.
Section(lock, does) == << St("lock", lock, "-"), St("unlock", lock, does) >>

\* start_system_audio_capture, with or without a vad_config argument.
StartSteps(given) ==
    Section("stream_task", "check")
    \o (IF given THEN Section("vad_config", "write") ELSE << >>)
    \o << St("work", "-", "device") >>
    \o Section("vad_config", "read")
    \o Section("is_capturing", "raise")
    \o << St("work", "-", "emit"), St("work", "-", "spawn") >>
    \o Section("stream_task", "register")

\* A stop whose stream_task guard lives to the end of the function.
StopStepsGuardKept ==
    << St("lock", "stream_task", "-"), St("work", "-", "take"),
       St("await", "-", "sleep") >>
    \o Section("is_capturing", "lower")
    \o << St("await", "-", "sleep"), St("work", "-", "emit"),
          St("unlock", "stream_task", "-") >>

\* stop_system_audio_capture
StopSteps ==
    Section("stream_task", "take")
    \o << St("await", "-", "sleep") >>
    \o Section("is_capturing", "lower")
    \o << St("await", "-", "sleep"), St("work", "-", "emit") >>

\* manual_stop_continuous
ManualStopSteps == << St("work", "-", "emit"), St("await", "-", "sleep") >>

\* get_vad_config
GetConfigSteps == Section("vad_config", "read")

\* update_vad_config
UpdateSteps == << St("work", "-", "validate") >> \o Section("vad_config", "write")

\* get_capture_status
StatusSteps == Section("is_capturing", "read")

RECURSIVE Repeat(_, _)
Repeat(steps, n) == IF n = 0 THEN << >> ELSE steps \o Repeat(steps, n - 1)

\* The spawned future: the capture loop awaits the stream and processes what
\* it yields, frames times, until the stream ends; then *guard = None.
TaskSteps(frames) ==
    Repeat(<< St("await", "-", "next"), St("frames", "-", "frame") >>, frames)
    \o << St("await", "-", "next") >>
    \o Section("stream_task", "clear")

\* Frames a future processes before its stream ends.
MaxLockFrames == 1

\* The commands a client may call.
Programs ==
    { StartSteps(TRUE), StartSteps(FALSE), StopSteps, ManualStopSteps,
      GetConfigSteps, UpdateSteps, StatusSteps }

\* Nobody holds mutex l.
Free(l) ==
    /\ \A c \in Clients : l \notin loc[c].held
    /\ \A t \in TaskIds : l \notin task[t].held

\* The step a participant p (with its prog, at and held) is at.
Cur(p) == p.prog[p.at]

\* The participant can take its step: lock() returns only when l is free.
CanStep(p) == Cur(p).k = "lock" => Free(Cur(p).l)

HeldAfter(p) ==
    IF Cur(p).k = "lock" THEN p.held \cup { Cur(p).l }
    ELSE IF Cur(p).k = "unlock" THEN p.held \ { Cur(p).l }
    ELSE p.held

\* The unborn task with the least id.
FirstUnborn ==
    CHOOSE u \in TaskIds :
        /\ task[u].status = "unborn"
        /\ \A w \in TaskIds : w < u => task[w].status # "unborn"

\* A client calls a command.
LockCall ==
    \E c \in Clients : \E prog \in Programs :
        /\ CanCall(c, MaxCalls)
        /\ ncalls' = ncalls + 1
        /\ pc' = [pc EXCEPT ![c] = "busy"]
        /\ loc' = [loc EXCEPT ![c] = [NoLocals EXCEPT !.prog = prog, !.at = 1]]
        /\ UNCHANGED << stream_task, is_capturing, vad_config, ret, task, events, obs >>

\* A client takes the step it is at.  The check returns early when a handle
\* is stored, the device and the validation may fail; a return drops every
\* guard in scope.
ClientStep ==
    \E c \in Clients : \E fails \in BOOLEAN : \E frames \in 0..MaxLockFrames :
        /\ pc[c] = "busy"
        /\ CanStep(loc[c])
        /\ LET me == loc[c]
               st == Cur(me)
               refuses == \/ st.e = "check" /\ stream_task # None
                          \/ st.e \in { "device", "validate" } /\ fails
               ends == refuses \/ me.at = Len(me.prog)
           IN  /\ fails => st.e \in { "device", "validate" }
               /\ frames > 0 => st.e = "spawn"
               /\ stream_task' = IF st.e = "register" THEN me.task
                                 ELSE IF st.e = "take" THEN None
                                 ELSE stream_task
               /\ is_capturing' = IF st.e = "raise" THEN TRUE
                                  ELSE IF st.e = "lower" THEN FALSE
                                  ELSE is_capturing
               /\ task' = IF st.e = "spawn"
                          THEN [task EXCEPT ![FirstUnborn] =
                                  [NoTask EXCEPT !.status = "running",
                                                 !.prog = TaskSteps(frames), !.at = 1]]
                          ELSE IF st.e = "take" /\ stream_task # None
                          THEN [task EXCEPT ![stream_task].cancel = TRUE]
                          ELSE task
               /\ pc' = [pc EXCEPT ![c] = IF ends THEN "idle" ELSE "busy"]
               /\ loc' = [loc EXCEPT ![c] =
                            IF ends THEN NoLocals
                            ELSE [me EXCEPT !.at = @ + 1, !.held = HeldAfter(me),
                                            !.task = IF st.e = "spawn"
                                                     THEN FirstUnborn ELSE @]]
        /\ UNCHANGED << vad_config, ret, events, ncalls, obs >>

\* A spawned future takes the step it is at; an aborted future is not
\* resumed from an await.
TaskStep ==
    \E t \in TaskIds :
        /\ Running(t) /\ task[t].at >= 1
        /\ CanStep(task[t])
        /\ ~(task[t].cancel /\ Cur(task[t]).k = "await")
        /\ stream_task' = IF Cur(task[t]).e = "clear" THEN None ELSE stream_task
        /\ task' = [task EXCEPT ![t] =
                      IF task[t].at = Len(task[t].prog)
                      THEN [@ EXCEPT !.status = "done", !.held = HeldAfter(task[t])]
                      ELSE [@ EXCEPT !.at = @ + 1, !.held = HeldAfter(task[t])]]
        /\ UNCHANGED << is_capturing, vad_config, pc, loc, ret, events, ncalls, obs >>

\* JoinHandle::abort: the future is dropped at the await it is suspended at,
\* and with it every guard it holds.
TaskAbort ==
    \E t \in TaskIds :
        /\ Running(t) /\ task[t].at >= 1
        /\ task[t].cancel /\ Cur(task[t]).k = "await"
        /\ task' = [task EXCEPT ![t].status = "aborted", ![t].held = {}]
        /\ UNCHANGED << stream_task, is_capturing, vad_config, pc, loc, ret,
                        events, ncalls, obs >>

NextLocks == LockCall \/ ClientStep \/ TaskStep \/ TaskAbort

SpecLocks == Init /\ [][NextLocks]_vars

\* A participant holds at most one mutex, and none where it suspends or
\* processes frames.
Momentary(p) ==
    /\ Cardinality(p.held) <= 1
    /\ Cur(p).k \in { "await", "frames" } => p.held = {}

InCommand(c) == pc[c] = "busy"

InFuture(t) == Running(t) /\ task[t].at >= 1

\* Whoever holds mutex l is at the statement that releases it.
HeldBriefly(l) ==
    /\ \A c \in Clients : l \in loc[c].held => Cur(loc[c]) = St("unlock", l, Cur(loc[c]).e)
    /\ \A t \in TaskIds : l \in task[t].held => Cur(task[t]) = St("unlock", l, Cur(task[t]).e)

\* C24: no command and no spawned future holds a mutex at a suspension point
\* or during frame processing, none holds two at once, every held mutex is
\* about to be released, and as long as a command or a future is under way
\* some step can be taken (no deadlock).
C24_LocksNeverHeldAcross ==
    /\ \A c \in Clients : InCommand(c) => Momentary(loc[c])
    /\ \A t \in TaskIds : InFuture(t) => Momentary(task[t])
    /\ \A l \in Locks : HeldBriefly(l)
    /\ (\/ \E c \in Clients : InCommand(c)
        \/ \E t \in TaskIds : InFuture(t))
       => \/ \E c \in Clients : InCommand(c) /\ CanStep(loc[c])
          \/ \E t \in TaskIds : InFuture(t) /\ CanStep(task[t])

\* A client waits for the stream_task mutex while a completing future holds it.
C24_Witness ==
    \E c \in Clients : \E t \in TaskIds :
        /\ InCommand(c) /\ InFuture(t)
        /\ Cur(loc[c]) = St("lock", "stream_task", "-")
        /\ "stream_task" \in task[t].held

----------------------------------------------------------------------------
(* Stop of a VAD capture (Spec) *)

Segmented == { "speech-start", "speech-detected", "speech-discarded" }

\* C25: no speech-start, speech-detected or speech-discarded notification of
\* a VAD task that stop has aborted follows a capture-stopped notification.
C25_SilentAfterStopped ==
    \A i, j \in 1..Len(events) :
        /\ i < j
        /\ events[i].name = "capture-stopped"
        /\ events[j].name \in Segmented
        => ~( /\ task[events[j].src].mode = "vad"
              /\ task[events[j].src].cancel )

----------------------------------------------------------------------------
(* The signal functions called on their own: a caller (client 1) makes one
   call of apply_noise_gate, normalize_audio_level or samples_to_wav_b64 on an
   input drawn from the
   sets below; ret[1] holds the arguments and the value returned. *)

\* Runs in a buffer passed to a function.
MaxFnRuns == 2

\* Sample rates on both sides of the limits of the range check.
FnRates ==
    { 0, 1, MinSampleRate - 1, MinSampleRate, 2 * MinSampleRate, MaxSampleRate,
      MaxSampleRate + 1 }

\* Gate thresholds: none, the default, the default peak threshold.
FnThresholds ==
    { 0, DefaultVadConfig.noise_gate_threshold, DefaultVadConfig.peak_threshold }

\* Amplitudes from beyond -1.0 to beyond 1.0, around both thresholds.
FnValues ==
    { -Unit - 200, -Unit, -40, -3, -2, 0, 1, 2, 3, 14, 35, Unit }

FnRuns == { Run(v, n) : v \in FnValues, n \in { 1, 3 } }

\* The buffers of at most k runs.
RECURSIVE BuffersUpTo(_)
BuffersUpTo(k) ==
    IF k = 0 THEN { NoSamples }
    ELSE LET shorter == BuffersUpTo(k - 1)
             longest == { a \in shorter : Len(a) = k - 1 }
             grown == { Append(a, r) : a \in longest, r \in FnRuns }
         IN  shorter \cup { b \in grown : k = 1 \/ b[k - 1].v # b[k].v }

FnBuffers == BuffersUpTo(MaxFnRuns)

\* The caller has made no call yet.
FnIdle == ncalls = 0

CallEncode ==
    /\ FnIdle
    /\ \E sr \in FnRates : \E samples \in FnBuffers :
        /\ ncalls' = ncalls + 1
        /\ Return(1, "samples_to_wav_b64", << sr, samples >>,
                  samples_to_wav_b64(sr, samples))
        /\ UNCHANGED << stream_task, is_capturing, vad_config, pc, loc, task,
                        events, obs >>

CallGate ==
    /\ FnIdle
    /\ \E threshold \in FnThresholds : \E samples \in FnBuffers :
        /\ ncalls' = ncalls + 1
        /\ Return(1, "apply_noise_gate", << samples, threshold >>,
                  apply_noise_gate(samples, threshold))
        /\ UNCHANGED << stream_task, is_capturing, vad_config, pc, loc, task,
                        events, obs >>

\* Target levels: the one the capture loops pass, and a loud one.
FnTargets == { TargetRms, 8 * TargetRms }

\* The buffers passed to normalize_audio_level: the small ones, and an
\* utterance of more than a million samples of silence ending in one sample
\* beyond -1.0, whose RMS is below 0.001.
NormBuffers ==
    FnBuffers \cup { << Run(0, 2 * Unit * Unit), Run(-Unit - 200, 1) >> }

CallNormalize ==
    /\ FnIdle
    /\ \E target \in FnTargets : \E samples \in NormBuffers :
        /\ ncalls' = ncalls + 1
        /\ Return(1, "normalize_audio_level", << samples, target >>,
                  normalize_audio_level(samples, target))
        /\ UNCHANGED << stream_task, is_capturing, vad_config, pc, loc, task,
                        events, obs >>

NextFn == CallEncode \/ CallGate \/ CallNormalize

SpecFn == Init /\ [][NextFn]_vars

\* The last call was of samples_to_wav_b64; its arguments and its result.
Encoded == ret[1].op = "samples_to_wav_b64"

EncRate == ret[1].arg[1]

EncSamples == ret[1].arg[2]

EncResult == ret[1].val

\* C26: samples_to_wav_b64 returns an error exactly when the sample rate is
\* outside [8000, 96000] or the samples are empty, and an error carries the
\* message only, no container.
C26_EncodeErrors ==
    Encoded =>
        /\ ~EncResult.ok <=> \/ EncRate < MinSampleRate \/ EncRate > MaxSampleRate
                             \/ RLen(EncSamples) = 0
        /\ ~EncResult.ok => DOMAIN EncResult = { "ok", "err" }
        /\ EncResult.ok => "pcm" \in DOMAIN EncResult

C26_Witness ==
    /\ Encoded /\ ~EncResult.ok
    /\ EncRate = MaxSampleRate /\ EncSamples = NoSamples

\* C27 as stated: samples_to_wav_b64 succeeds for every non-empty input whose
\* sample rate is neither 0 nor greater than 96000.
C27_AsStated ==
    Encoded /\ RLen(EncSamples) > 0 /\ EncRate # 0 /\ EncRate <= MaxSampleRate
        => EncResult.ok

\* C27 amended: samples_to_wav_b64 succeeds for every non-empty input whose
\* sample rate is at least 8000 and at most 96000.
C27_SucceedsInRange ==
    /\ Encoded /\ RLen(EncSamples) > 0
    /\ MinSampleRate <= EncRate /\ EncRate <= MaxSampleRate
    => EncResult.ok

C27_Witness ==
    /\ Encoded /\ EncResult.ok
    /\ EncRate = MinSampleRate /\ RLen(EncSamples) = 1

\* C28: a successful call on n samples returns a container with RIFF at
\* offset 0, WAVE at offset 8 and, at offset 40, a data size of 2 * n; it
\* holds n samples, the i-th being the 16-bit value of the i-th input sample.
C28_ContainerDeclaresInput ==
    Encoded /\ EncResult.ok =>
        /\ EncResult.riff = "RIFF" /\ OffsetOf("riff") = 0
        /\ EncResult.wave = "WAVE" /\ OffsetOf("wave") = 8
        /\ OffsetOf("data_size") = 40
        /\ EncResult.data_size = 2 * RLen(EncSamples)
        /\ RLen(EncResult.pcm) = RLen(EncSamples)
        /\ \A i \in 1..RLen(EncSamples) :
              RAt(EncResult.pcm, i) = PcmSample(RAt(EncSamples, i))

C28_Witness ==
    /\ Encoded /\ EncResult.ok
    /\ EncSamples = << Run(-Unit - 200, 3), Run(14, 1) >>
    /\ EncResult.data_size = 8
    /\ EncResult.pcm = << Run(-I16Max, 3), Run(458, 1) >>

\* The last call was of apply_noise_gate; its arguments and its result.
Gated == ret[1].op = "apply_noise_gate"

GateIn == ret[1].arg[1]

GateThreshold == ret[1].arg[2]

GateOut == ret[1].val

\* C29: the output of apply_noise_gate has the length of the input, its i-th
\* sample is the gated i-th input sample, a sample with |s| >= threshold is
\* returned unchanged, and with threshold 0 the output is the input.
C29_GatePassesLoudSamples ==
    Gated =>
        /\ RLen(GateOut) = RLen(GateIn)
        /\ \A i \in 1..RLen(GateIn) :
              /\ RAt(GateOut, i) = GateSample(RAt(GateIn, i), GateThreshold)
              /\ Abs(RAt(GateIn, i)) >= GateThreshold
                    => RAt(GateOut, i) = RAt(GateIn, i)
        /\ GateThreshold = 0 => GateOut = GateIn

C29_Witness ==
    /\ Gated /\ GateThreshold = 3
    /\ GateIn = << Run(-3, 1), Run(2, 3) >>
    /\ GateOut = << Run(-3, 1), Run(1, 3) >>

\* The positions of the gate's input that lie below the threshold.
Quiet == { i \in 1..RLen(GateIn) : Abs(RAt(GateIn, i)) < GateThreshold }

----------------------------------------------------------------------------
(* normalize_audio_level called on its own (SpecFn) *)

\* The last call was of normalize_audio_level; its arguments and its result.
Normalized == ret[1].op = "normalize_audio_level"

NormIn == ret[1].arg[1]

NormTarget == ret[1].arg[2]

NormOut == ret[1].val

\* The input is empty or its RMS is below 0.001.
NearSilent == NormIn = NoSamples \/ MeanSq(NormIn) < 1

\* Every sample of buffer b lies in [-1.0, 1.0].
InUnitRange(b) == \A i \in 1..Len(b) : Abs(b[i].v) <= Unit

\* The output has the length of the input, and is the input when that is
\* empty or has an RMS below 0.001; otherwise every output sample has the sign
\* of its input sample and at most 10 times its magnitude.
GainAtMostTen ==
    /\ RLen(NormOut) = RLen(NormIn)
    /\ NearSilent => NormOut = NormIn
    /\ ~NearSilent =>
          \A i \in 1..RLen(NormIn) :
              /\ Abs(RAt(NormOut, i)) <= MaxGain * Abs(RAt(NormIn, i))
              /\ Sign(RAt(NormOut, i)) * Sign(RAt(NormIn, i)) >= 0

\* C31 as stated: normalize_audio_level returns the input unchanged when it
\* is empty or its RMS is below 0.001, applies a gain of at most 10 otherwise,
\* and every output sample x satisfies |x| <= 1.0.
C31_AsStated ==
    Normalized => GainAtMostTen /\ InUnitRange(NormOut)

\* C31 amended: the same, where every output sample satisfies |x| <= 1.0 when
\* a gain was applied or when every input sample does.
C31_NormalizeBounded ==
    Normalized =>
        /\ GainAtMostTen
        /\ ~NearSilent \/ InUnitRange(NormIn) => InUnitRange(NormOut)

C31_Witness ==
    /\ Normalized /\ NormTarget = 8 * TargetRms
    /\ NormIn = << Run(14, 3), Run(Unit, 1) >>
    /\ RAt(NormOut, 1) > 14
    /\ RAt(NormOut, 4) > 0 /\ RAt(NormOut, 4) < Unit

----------------------------------------------------------------------------
(* The two states of the segmenter (SpecVad: the task is task 1) *)

\* C32: whenever the segmenter is Idle between frames the utterance buffer is
\* empty and speech_chunks and silence_chunks are 0, after a safety-cap flush
\* as after a hangover.
C32_IdleIsClean ==
    ~Seg.in_speech =>
        /\ Seg.speech_buffer = NoSamples
        /\ Seg.speech_chunks = 0
        /\ Seg.silence_chunks = 0

\* Idle after a safety-cap flush of an utterance that held a silent frame.
C32_Witness ==
    /\ task[1].config.hop_size = BigHop /\ task[1].config.silence_chunks = 2
    /\ Seg.classes = << TRUE, FALSE, TRUE >>
    /\ ~Seg.in_speech /\ Seg.silence_chunks = 0
    /\ Detected = 1 /\ Discarded = 0

\* C33: whenever the segmenter is InSpeech between frames the pre-speech
\* buffer is empty, speech_chunks >= 1, and the utterance buffer is non-empty
\* and holds a whole number of frames.
C33_InSpeechHoldsFrames ==
    Seg.in_speech =>
        /\ Seg.pre_speech = NoSamples
        /\ Seg.speech_chunks >= 1
        /\ RLen(Seg.speech_buffer) >= 1
        /\ RLen(Seg.speech_buffer) % task[1].config.hop_size = 0

\* InSpeech on a look-back frame and a speech frame, half a frame waiting.
C33_Witness ==
    /\ task[1].config.hop_size = 2 /\ task[1].config.pre_speech_chunks = 1
    /\ Seg.classes = << FALSE, FALSE, TRUE >>
    /\ Seg.in_speech /\ Seg.speech_chunks = 1
    /\ RLen(Seg.speech_buffer) = 4
    /\ RLen(Seg.buffer) = 1

\* The notifications that end an utterance.
Endings == { "speech-detected", "speech-discarded", "audio-encoding-error" }

\* The utterances open after the notifications evs: speech-start
\* notifications minus utterance-ending ones.
Open(evs) ==
    Count(evs, "speech-start")
        - Cardinality({ i \in 1..Len(evs) : evs[i].name \in Endings })

\* C34: the speech-start notifications emitted minus the utterance-ending
\* ones are 1 when the segmenter is InSpeech and 0 when it is Idle, and after
\* every notification the difference is 0 or 1: every ending follows its own
\* speech-start and no two speech-starts follow each other without an ending.
C34_StartsMatchEndings ==
    /\ Open(events) = IF Seg.in_speech THEN 1 ELSE 0
    /\ \A k \in 1..Len(events) :
          Open(SubSeq(events, 1, k)) =
              IF events[k].name = "speech-start" THEN 1 ELSE 0

\* A third utterance has started after one was emitted and another discarded.
C34_Witness ==
    /\ Seg.in_speech
    /\ Count(events, "speech-start") = 3
    /\ Detected = 1 /\ Discarded = 1

\* The silent frames at the end of the verdicts cs.
RECURSIVE TrailingSilent(_)
TrailingSilent(cs) ==
    IF cs = << >> \/ cs[Len(cs)] THEN 0
    ELSE 1 + TrailingSilent(SubSeq(cs, 1, Len(cs) - 1))

\* C35: when the hangover completes on an accepted utterance, the samples
\* left out of the emitted utterance are at most those of the final run of
\* consecutive silent frames, which silence_chunks counts: the emitted
\* utterance is non-empty, is the utterance buffer without those last
\* samples, and so holds the look-back and every speech frame whole.
C35_TrimWithinSilence ==
    [][/\ HangoverCompletes
       /\ Seg.speech_chunks >= task[1].config.min_speech_chunks
       => \A run \in { TrailingSilent(SegNext.classes) } :
          \A whole \in { RLen(Seg.speech_buffer) + task[1].config.hop_size } :
          \A sent \in { NewEvents[1].data.data_size \div 2 } :
          \A kept \in { RTake(WithFrame, sent) } :
             /\ run = Seg.silence_chunks + 1
             /\ sent >= 1 /\ sent <= whole
             /\ whole - sent <= run * task[1].config.hop_size
             /\ NewEvents[1].data =
                   samples_to_wav_b64(task[1].sr,
                       normalize_audio_level(kept, TargetRms))]_vars

\* Two silent frames of 15 s end an utterance of two speech frames: all of
\* the silence but 0.15 s is left out.
C35_Witness ==
    /\ task[1].config.hop_size = BigHop /\ task[1].config.silence_chunks = 2
    /\ Seg.classes = << TRUE, TRUE, FALSE, FALSE >>
    /\ ~Seg.in_speech
    /\ Len(events) >= 1
    /\ events[Len(events)].name = "speech-detected"
    /\ events[Len(events)].data.data_size =
          2 * (2 * BigHop + (MinSampleRate * KeepSilencePercent) \div 100)

\* The samples the segmenter holds for the utterance in progress or to come,
\* and the input samples analysed so far.
Held == IF Seg.in_speech THEN Seg.speech_buffer ELSE Seg.pre_speech

AnalysedLen == Len(Seg.classes) * task[1].config.hop_size

\* The conditioned input samples from position from + 1, n of them.
Conditioned(input, from, n) ==
    apply_noise_gate(RTake(RDrop(input, from), n),
                     task[1].config.noise_gate_threshold)

\* The step analyses a frame and emits an utterance.
UtteranceEmitted ==
    /\ FrameDone
    /\ NewEvents # << >>
    /\ NewEvents[Len(NewEvents)].name = "speech-detected"

\* C36: the samples held are the conditioned most recent input that follows
\* the end of the last utterance, in arrival order; an utterance emitted is
\* the encoding of the normalised first samples of the samples held followed
\* by the frame, which are one run of conditioned input that starts at or
\* after the end of the last utterance; and none of them is held afterwards.
C36_UtterancesDisjoint ==
    /\ [](task[1].config.hop_size >= 1 =>
            /\ RLen(Held) <= AnalysedLen - Seg.used
            /\ Held = Conditioned(task[1].fed, AnalysedLen - RLen(Held), RLen(Held)))
    /\ [][UtteranceEmitted =>
            \A whole \in { RCat(Held, FrameAnalysed) } :
            \A sent \in { NewEvents[Len(NewEvents)].data.data_size \div 2 } :
            \A start \in { AnalysedLen + task[1].config.hop_size - RLen(whole) } :
            \A kept \in { RTake(whole, sent) } :
               /\ start >= Seg.used
               /\ sent >= 1 /\ sent <= RLen(whole)
               /\ whole = Conditioned(task'[1].fed, start, RLen(whole))
               /\ NewEvents[Len(NewEvents)].data =
                     samples_to_wav_b64(task[1].sr,
                         normalize_audio_level(kept, TargetRms))
               /\ SegNext.used = AnalysedLen + task[1].config.hop_size
               /\ SegNext.speech_buffer = NoSamples
               /\ SegNext.pre_speech = NoSamples]_vars

\* Two utterances of three samples each, look-back included, out of six.
C36_Witness ==
    /\ task[1].config.hop_size = 1 /\ task[1].config.pre_speech_chunks = 1
    /\ Seg.classes = << FALSE, TRUE, FALSE, FALSE, TRUE, FALSE >>
    /\ Detected = 2 /\ Len(events) = 4
    /\ events[2].data.data_size = 6 /\ events[4].data.data_size = 6
    /\ Seg.used = 6 /\ Held = NoSamples

----------------------------------------------------------------------------
(* The flag, the handle and the configuration under overlapping calls (Spec) *)

\* No start and no stop is in progress.
NoStartOrStop == \A c \in Clients : pc[c] \in { "idle", "manual_sleep" }

\* C37 as stated: whenever a task is registered and running, not aborted,
\* the capturing flag is true, and whenever the flag is false with no start
\* or stop in progress no task is running.
C37_FlagFollowsTask ==
    /\ stream_task \in Live => is_capturing
    /\ ~is_capturing /\ NoStartOrStop => Live = {}

\* C38 as stated: after a start that is the only call made and has returned
\* an error, the shared configuration, the flag and the handle are what they
\* were before it: the default configuration, false and None.
C38_FailedStartChangesNothing ==
    \A c \in Clients :
        ncalls = 1 /\ ret[c].op = "start" /\ ret[c].val # "Ok"
            => /\ vad_config = DefaultVadConfig
               /\ ~is_capturing
               /\ stream_task = None

----------------------------------------------------------------------------
(* The end of the stream in VAD mode (SpecVad: the task is task 1) *)

\* The stream of the task ends in this step.
StreamEnds == task[1].pc = "loop" /\ task'[1].pc = "exit"

\* The task has left its capture loop.
LoopLeft == task[1].pc = "exit"

\* C39: the step in which the stream ends emits nothing and the task then
\* terminates without emitting anything: an utterance in progress is neither
\* emitted nor reported as discarded, and the samples waiting for a whole
\* frame, fewer than hop_size, are never analysed.
C39_NothingAtEndOfStream ==
    /\ [][StreamEnds \/ LoopLeft =>
            /\ events' = events
            /\ SegNext.classes = Seg.classes
            /\ task'[1].status \in { "running", "done" }]_vars
    /\ [](LoopLeft /\ task[1].config.hop_size >= 1 =>
            /\ RLen(Seg.buffer) < task[1].config.hop_size
            /\ Open(events) = IF Seg.in_speech THEN 1 ELSE 0)

\* The task is done with an utterance open and half a frame unanalysed.
C39_Witness ==
    /\ task[1].status = "done"
    /\ task[1].config.hop_size = 2
    /\ Seg.in_speech /\ RLen(Seg.speech_buffer) = 2
    /\ RLen(Seg.buffer) = 1
    /\ Count(events, "speech-start") = 1 /\ Len(events) = 1

----------------------------------------------------------------------------
(* The buffer of a continuous capture (SpecCont: the task is task 1) *)

\* The samples the stream has delivered to the task, now and after the step.
Fed == task[1].fed

FedNext == task'[1].fed

\* C40: the accumulated buffer is always a prefix of the samples delivered,
\* in arrival order; a step appends to it only while the stop flag is clear,
\* and then exactly the samples it receives; a sample received once the flag
\* is set is not appended, the buffer staying as it was, and ends the loop.
C40_BufferIsPrefix ==
    /\ [](IsPrefix(task[1].audio_buffer, Fed))
    /\ [][/\ task'[1].audio_buffer # task[1].audio_buffer =>
                /\ ~task[1].stop_flag
                /\ task[1].audio_buffer = RTake(Fed, Accumulated)
                /\ Fed = task[1].audio_buffer
                /\ task'[1].audio_buffer = FedNext
                /\ IsPrefix(Fed, FedNext)
          /\ task[1].stop_flag /\ FedNext # Fed =>
                /\ task'[1].audio_buffer = task[1].audio_buffer
                /\ RLen(FedNext) = RLen(Fed) + 1
                /\ task'[1].pc = "flush"]_vars

\* A sample delivered after the manual stop was left out of a buffer that
\* holds the two received before it.
C40_Witness ==
    /\ task[1].stop_flag /\ task[1].why = "flag"
    /\ Accumulated = 2 /\ Len(task[1].audio_buffer) = 2
    /\ RLen(Fed) = 3
    /\ IsPrefix(task[1].audio_buffer, Fed)

====
